---- MODULE Spec2Model ----
(***************************************************************************)
(* Model of the POS backend: a set of HTTP functions that proxy to the     *)
(* Fireberry CRM.  An invocation is followed from its entry (a direct      *)
(* Gateway call, a Facade method or an HTTP handler) through the single    *)
(* outbound axios request to the value it returns.  Spec follows one       *)
(* invocation at a time, FairSpec adds that the outbound request settles,  *)
(* and ConcurrentSpec interleaves the steps of two invocations.            *)
(*                                                                         *)
(* JavaScript values are tagged records, so that absent (undefined), null, *)
(* falsy and truthy values stay distinct; an object is a function from the *)
(* names of its own properties to values, so that "has no such field" is   *)
(* a statement about its DOMAIN.                                           *)
(***************************************************************************)
EXTENDS Integers, Sequences, FiniteSets, TLC

VARIABLES
    pc,        \* "idle", "awaiting" or "forwarding" (the outbound request is
               \* in flight, made by callApi or by callFireberryAPI), "settled",
               \* "suspended" (the handler waits for applyCors for good)
    inv,       \* the invocation: its layer, operation and arguments
    sent,      \* the request configurations handed to axios, in order
    outcome,   \* what the backend did with the request
    gw,        \* the promise returned by callApi
    promise,   \* the promise returned by the invoked Facade method
    responses, \* the HTTP responses the handler has written, in order
    today,     \* the time value of "new Date()" in getUpcomingBirthdays
    caught,    \* the exception the catch clause of the handler received
    service,   \* the fields of the fireberryService singleton
    parked     \* the variables above of a second invocation in progress,
               \* which is not the one the event loop is running

vars == <<pc, inv, sent, outcome, gw, promise, responses, today, caught,
          service, parked>>

-----------------------------------------------------------------------------
(* JavaScript values *)

Undefined == [t |-> "undefined"]

Null == [t |-> "null"]

Bool(b) == [t |-> "bool", b |-> b]

Num(n) == [t |-> "num", n |-> n]

Str(s) == [t |-> "str", s |-> s]

Obj(f) == [t |-> "obj", o |-> f]

Arr(a) == [t |-> "arr", a |-> a]

\* the number NaN
NaN == [t |-> "nan"]

\* ToBoolean: undefined, null, false, 0, NaN and "" are falsy, all else truthy
Truthy(v) ==
    CASE v.t = "undefined" -> FALSE
      [] v.t = "null"      -> FALSE
      [] v.t = "nan"       -> FALSE
      [] v.t = "bool"      -> v.b
      [] v.t = "num"       -> v.n # 0
      [] v.t = "str"       -> v.s # ""
      [] OTHER             -> TRUE

Digit(d) ==
    CASE d = 0 -> "0" [] d = 1 -> "1" [] d = 2 -> "2" [] d = 3 -> "3"
      [] d = 4 -> "4" [] d = 5 -> "5" [] d = 6 -> "6" [] d = 7 -> "7"
      [] d = 8 -> "8" [] d = 9 -> "9"

RECURSIVE NumberToString(_)
\* Number.prototype.toString for a non-negative integer
NumberToString(n) ==
    IF n < 10 THEN Digit(n) ELSE NumberToString(n \div 10) \o Digit((n % 10))

\* the largest number a numeric text of a request stands for
MaxNumber == 60

\* Number(value): a number is itself, "" is 0, the decimal text of a
\* non-negative integer is that integer, any other text is NaN
ToNumber(v) ==
    CASE v.t = "num"  -> v
      [] v.t = "null" -> Num(0)
      [] v.t = "bool" -> Num(IF v.b THEN 1 ELSE 0)
      [] v.t = "str"  ->
            IF v.s = "" THEN Num(0)
            ELSE IF \E n \in 0..MaxNumber : NumberToString(n) = v.s
            THEN Num(CHOOSE n \in 0..MaxNumber : NumberToString(n) = v.s)
            ELSE NaN
      [] OTHER -> NaN

\* Math.min(a, b) of two numbers: NaN when either is NaN
MathMin(a, b) ==
    IF a.t = "nan" \/ b.t = "nan" THEN NaN
    ELSE Num(IF a.n < b.n THEN a.n ELSE b.n)

RECURSIVE Concat(_)
\* the string made of the characters c, in order
Concat(c) == IF c = <<>> THEN "" ELSE c[1] \o Concat(Tail(c))

\* a string value whose characters are known one by one
Text(c) == [t |-> "str", s |-> Concat(c), c |-> c]

RECURSIVE TrimStart(_)
TrimStart(c) == IF c # <<>> /\ c[1] = " " THEN TrimStart(Tail(c)) ELSE c

RECURSIVE TrimEnd(_)
TrimEnd(c) ==
    IF c # <<>> /\ c[Len(c)] = " " THEN TrimEnd(SubSeq(c, 1, Len(c) - 1)) ELSE c

\* String.prototype.trim, on the characters of a string
Trim(c) == TrimEnd(TrimStart(c))

-----------------------------------------------------------------------------
(* The Gateway: FireberryService.callApi *)

HttpMethod == {"GET", "POST", "PUT", "DELETE", "PATCH"}

baseUrl == "https://api.fireberry.com"

\* new FireberryService(): the fields the constructor sets
NewFireberryService == [baseUrl |-> baseUrl, token |-> ""]

\* the request configuration callApi builds from the fields of the service
\* it is called on; a config without the property data is a request without
\* a body
BuildConfigOf(this, endpoint, method, data) ==
    LET base == [url |-> this.baseUrl \o "/" \o endpoint, method |-> method]
    IN  IF Truthy(data) /\ method \in {"POST", "PUT", "PATCH"}
        THEN base @@ [data |-> data]
        ELSE base

\* the request configuration callApi hands to axios
BuildConfig(endpoint, method, data) == BuildConfigOf(service, endpoint, method, data)


\* what the backend (or the transport) does with one request: an HTTP
\* response with a status and a parsed JSON body, or no response at all
Response(status, body) == [kind |-> "response", status |-> status, body |-> body]

NetworkFailure(message) == [kind |-> "network", message |-> message]

\* axios(config): resolves with the response for a 2xx status, rejects with
\* an AxiosError carrying the response otherwise, and rejects with an error
\* without a response when the transport failed
Axios(o) ==
    IF o.kind = "response" /\ o.status >= 200 /\ o.status < 300
    THEN [ok |-> TRUE, response |-> [status |-> o.status, data |-> o.body]]
    ELSE IF o.kind = "response"
    THEN [ok |-> FALSE,
          error |-> [message |-> "Request failed with status code "
                                     \o NumberToString(o.status),
                     response |-> [status |-> o.status, data |-> o.body]]]
    ELSE [ok |-> FALSE, error |-> [message |-> o.message]]

Resolved(v) == [state |-> "resolved", value |-> v]

Rejected(r) == [state |-> "rejected", reason |-> r]

Pending == [state |-> "pending"]

\* a catch clause that reads error.response.status without the optional
\* chaining: a TypeError when the error carries no response
CallApiCatchUnguarded(error) ==
    IF "response" \in DOMAIN error
    THEN Resolved([success |-> FALSE,
                   error |-> [code |-> NumberToString(error.response.status),
                              message |-> IF error.message # "" THEN error.message
                                          ELSE "Unknown error occurred"]])
    ELSE Rejected("TypeError")

\* a catch clause without the fallback of the message
CallApiCatchNoFallback(error) ==
    LET status == IF "response" \in DOMAIN error
                  THEN NumberToString(error.response.status)
                  ELSE ""
    IN  Resolved([success |-> FALSE,
                  error |-> [code |-> IF status # "" THEN status ELSE "unknown",
                             message |-> error.message]])

\* the catch clause of callApi
CallApiCatch(error) ==
    LET status == IF "response" \in DOMAIN error
                  THEN NumberToString(error.response.status)
                  ELSE ""
    IN  Resolved([success |-> FALSE,
                  error |-> [code |-> IF status # "" THEN status ELSE "unknown",
                             message |-> IF error.message # "" THEN error.message
                                         ELSE "Unknown error occurred"]])

\* a success branch that copies the body only when it is truthy
CallApiSuccessTruthyOnly(response) ==
    IF Truthy(response.data)
    THEN Resolved([success |-> TRUE, data |-> response.data])
    ELSE Resolved([success |-> TRUE])

\* a success branch that also fills the error of the envelope
CallApiSuccessWithError(response) ==
    Resolved([success |-> TRUE, data |-> response.data,
              error |-> [code |-> NumberToString(response.status),
                         message |-> ""]])

\* the return statement after the await of callApi
CallApiSuccess(response) == Resolved([success |-> TRUE, data |-> response.data])

\* callApi after axios has settled
CallApiSettle(o) ==
    LET r == Axios(o)
    IN  IF r.ok THEN CallApiSuccess(r.response) ELSE CallApiCatch(r.error)

\* JSON.stringify of the request data, as a JSON value: a property whose
\* value is undefined is not written, and NaN is written as null
JsonStringify(v) ==
    IF v.t = "obj"
    THEN Obj([k \in {j \in DOMAIN v.o : v.o[j] # Undefined} |->
                 IF v.o[k] = NaN THEN Null ELSE v.o[k]])
    ELSE v

\* the body on the wire: none when the config has no data
WireBody(c) ==
    IF "data" \in DOMAIN c /\ c.data # Undefined
    THEN [present |-> TRUE, json |-> JsonStringify(c.data)]
    ELSE [present |-> FALSE]


-----------------------------------------------------------------------------
(* The Resource Facades: what each create and update method passes to callApi *)

\* Object.fromEntries(Object.entries(o).filter(([_, value]) => value != null))
RemoveNullish(o) ==
    [k \in {j \in DOMAIN o : o[j] # Undefined /\ o[j] # Null} |-> o[k]]

\* Object.fromEntries(Object.entries(o).filter(([_, value]) => value !== undefined))
RemoveUndefined(o) == [k \in {j \in DOMAIN o : o[j] # Undefined} |-> o[k]]

Call(endpoint, method, data) == [endpoint |-> endpoint, method |-> method, data |-> data]

createCustomer(customer) ==
    Call("api/record/account", "POST", Obj(RemoveUndefined(customer)))

updateCustomer(id, customer) ==
    Call("api/record/account" \o "/" \o id, "PUT", Obj(RemoveUndefined(customer)))

createProduct(product) ==
    Call("api/record/product", "POST", Obj(RemoveUndefined(product)))

updateProduct(id, product) ==
    Call("api/record/product" \o "/" \o id, "PUT", Obj(RemoveUndefined(product)))

\* a required fields check that looks at the account only
createOrderRejectsAccountOnly(order) ==
    \/ "accountid" \notin DOMAIN order
    \/ ~Truthy(order["accountid"])

\* createOrder answers locally, without a call, when a required field is falsy
createOrderRejects(order) ==
    \/ "accountid" \notin DOMAIN order
    \/ ~Truthy(order["accountid"])
    \/ "companyname" \notin DOMAIN order
    \/ ~Truthy(order["companyname"])

createOrderError ==
    [success |-> FALSE,
     error |-> [code |-> "MISSING_REQUIRED_FIELDS",
                message |-> "Missing required fields: accountid and companyname are required"]]

createOrder(order) ==
    Call("api/record/crmorder", "POST", Obj(RemoveUndefined(order)))

updateOrder(id, order) ==
    Call("api/record/crmorder" \o "/" \o id, "PUT", Obj(RemoveUndefined(order)))

createInvoice(invoice) == Call("invoices", "POST", Obj(invoice))

updateInvoice(id, invoice) == Call("invoices" \o "/" \o id, "PUT", Obj(invoice))

createRepair(repair) == Call("api/record/cases", "POST", Obj(repair))

updateRepair(id, repair) == Call("api/record/cases" \o "/" \o id, "PUT", Obj(repair))

createInventory(item) == Call("api/record/inventory", "POST", Obj(item))

updateInventory(id, item) == Call("api/record/inventory" \o "/" \o id, "PUT", Obj(item))

Resources == {"customer", "product", "order", "invoice", "repair", "inventory"}

\* the callApi invocation of a Facade's create method
CreateCall(resource, o) ==
    CASE resource = "customer"  -> createCustomer(o)
      [] resource = "product"   -> createProduct(o)
      [] resource = "order"     -> createOrder(o)
      [] resource = "invoice"   -> createInvoice(o)
      [] resource = "repair"    -> createRepair(o)
      [] resource = "inventory" -> createInventory(o)

\* the callApi invocation of a Facade's update method
UpdateCall(resource, id, o) ==
    CASE resource = "customer"  -> updateCustomer(id, o)
      [] resource = "product"   -> updateProduct(id, o)
      [] resource = "order"     -> updateOrder(id, o)
      [] resource = "invoice"   -> updateInvoice(id, o)
      [] resource = "repair"    -> updateRepair(id, o)
      [] resource = "inventory" -> updateInventory(id, o)

\* the record path of each Facade
apiRecordPath(resource) ==
    CASE resource = "customer"  -> "api/record/account"
      [] resource = "product"   -> "api/record/product"
      [] resource = "order"     -> "api/record/crmorder"
      [] resource = "invoice"   -> "api/record/invoiceno"
      [] resource = "repair"    -> "api/record/cases"
      [] resource = "inventory" -> "api/record/inventory"

\* the query string of a list method: params.pageSize || 50 and
\* params.pageNumber || 1
PageQuery(pageSize, pageNumber) ==
    "pagesize=" \o NumberToString(IF Truthy(pageSize) THEN pageSize.n ELSE 50)
        \o "&pagenumber=" \o NumberToString(IF Truthy(pageNumber) THEN pageNumber.n ELSE 1)

\* getAllProductsPaginated, getAllInvoices, getAllRepairs, getAllInventory,
\* getAllOrders, getAllCustomers
getAll(resource, pageSize, pageNumber) ==
    Call(apiRecordPath(resource) \o "?" \o PageQuery(pageSize, pageNumber),
         "GET", Undefined)

getLowStock(pageSize, pageNumber) ==
    Call(apiRecordPath("inventory") \o "/low-stock?" \o PageQuery(pageSize, pageNumber),
         "GET", Undefined)

\* getProductById, getRepairById, getOrderById, getCustomerById
getById(resource, id) == Call(apiRecordPath(resource) \o "/" \o id, "GET", Undefined)

getOrderItems(id) == Call("api/v2/record/13/" \o id \o "/items", "GET", Undefined)

\* deleteProduct, deleteRepair, deleteOrder, deleteCustomer
deleteById(resource, id) ==
    Call(apiRecordPath(resource) \o "/" \o id, "DELETE", Undefined)

\* the fields queryCustomers asks the Query API for
QueryFields ==
    "accountid,accountname,firstname,lastname,emailaddress1,telephone1,idnumber,statuscode,statecode,websiteurl,createdon,birthdaydate,revenue"

\* a filter over four of the fields, telephone1 left out
QueryFilterFour(q) ==
    "((accountname start-with '%" \o q \o "') OR (firstname start-with '%" \o q
        \o "') OR (lastname start-with '%" \o q
        \o "') OR (emailaddress1 start-with '%" \o q \o "'))"

\* the filter string queryCustomers builds for the search text q
QueryFilter(q) ==
    "((accountname start-with '%" \o q \o "') OR (firstname start-with '%" \o q
        \o "') OR (lastname start-with '%" \o q
        \o "') OR (emailaddress1 start-with '%" \o q
        \o "') OR (telephone1 start-with '%" \o q \o "'))"

\* a parameter of a destructuring with a default: the default stands in for
\* a property that is absent or undefined
OrDefault(o, k, d) == IF k \in DOMAIN o /\ o[k] # Undefined THEN o[k] ELSE d

\* query.trim() is a TypeError when query is truthy and not a string
queryCustomersThrows(params) ==
    /\ "query" \in DOMAIN params
    /\ Truthy(params["query"])
    /\ params["query"].t # "str"

\* queryCustomers up to its await: the callApi invocation it makes
queryCustomers(params) ==
    LET query == OrDefault(params, "query", Undefined)
        queryPayload ==
            [objecttype  |-> Num(1),
             fields      |-> Str(QueryFields),
             page_size   |-> MathMin(OrDefault(params, "pageSize", Num(50)), Num(50)),
             page_number |-> OrDefault(params, "pageNumber", Num(1)),
             sort_by     |-> OrDefault(params, "sortBy", Str("accountname")),
             sort_type   |-> OrDefault(params, "sortDirection", Str("asc"))]
    IN  Call("api/query", "POST",
             Obj(IF Truthy(query) /\ Trim(query.c) # <<>>
                 THEN queryPayload @@ [query |-> Str(QueryFilter(query.s))]
                 ELSE queryPayload))

\* a queryCustomers that hands on the list under Data in place of the body
queryCustomersResultUnwrapped(result) ==
    IF /\ result.success
       /\ Truthy(result.data)
       /\ result.data.t = "obj"
       /\ "Data" \in DOMAIN result.data.o
       /\ result.data.o["Data"].t = "arr"
    THEN [success |-> TRUE, data |-> result.data.o["Data"]]
    ELSE result

\* queryCustomers after callApi has resolved with the envelope result
queryCustomersResult(result) ==
    IF /\ result.success
       /\ Truthy(result.data)
       /\ result.data.t = "obj"
       /\ "Data" \in DOMAIN result.data.o
       /\ result.data.o["Data"].t = "arr"
    THEN [success |-> TRUE, data |-> result.data,
          error |-> IF "error" \in DOMAIN result THEN result.error ELSE Undefined]
    ELSE result


-----------------------------------------------------------------------------
(* Dates.  A Date is its time value, counted in hours since 1970-01-01     *)
(* (the code counts milliseconds), or invalid (NaN).  The process runs in  *)
(* UTC, so local time and UTC coincide.  Months are indices 0..11.         *)

\* the length of a day in units of the time value (1000 * 60 * 60 * 24 ms)
TicksPerDay == 24

InvalidDate == [valid |-> FALSE, t |-> 0]

DateOfTime(t) == [valid |-> TRUE, t |-> t]

\* MakeDay: the day number of day d of month index mi of year y; a day
\* beyond the end of the month runs on into the following month
MakeDay(y, mi, d) ==
    LET m   == mi + 1
        yy  == IF m <= 2 THEN y - 1 ELSE y
        era == yy \div 400
        yoe == yy - era * 400
        mp  == IF m > 2 THEN m - 3 ELSE m + 9
        doy == (153 * mp + 2) \div 5 + d - 1
        doe == yoe * 365 + yoe \div 4 - yoe \div 100 + doy
    IN  era * 146097 + doe - 719468

\* the calendar date <<year, month index, day of month>> of a day number
CivilOfDay(z) ==
    LET zz  == z + 719468
        era == zz \div 146097
        doe == zz - era * 146097
        yoe == (doe - doe \div 1460 + doe \div 36524 - doe \div 146096) \div 365
        doy == doe - (365 * yoe + yoe \div 4 - yoe \div 100)
        mp  == (5 * doy + 2) \div 153
        d   == doy - (153 * mp + 2) \div 5 + 1
        m   == IF mp < 10 THEN mp + 3 ELSE mp - 9
        y   == yoe + era * 400
    IN  <<IF m <= 2 THEN y + 1 ELSE y, m - 1, d>>

getFullYear(date) == CivilOfDay(date.t \div TicksPerDay)[1]

getMonth(date) == CivilOfDay(date.t \div TicksPerDay)[2]

getDate(date) == CivilOfDay(date.t \div TicksPerDay)[3]

\* a Date constructor that stops at the last day of the month
NewDateClamped(y, mi, d) ==
    LET last == MakeDay(y, mi + 1, 1) - MakeDay(y, mi, 1)
    IN  DateOfTime(MakeDay(y, mi, IF d > last THEN last ELSE d) * TicksPerDay)

\* new Date(year, monthIndex, day): local midnight of that day
NewDate(y, mi, d) == DateOfTime(MakeDay(y, mi, d) * TicksPerDay)

\* date.setFullYear(y): the same month, day of month and time of day in year y
setFullYear(date, y) ==
    DateOfTime(MakeDay(y, getMonth(date), getDate(date)) * TicksPerDay
               + (date.t % TicksPerDay))

\* a string holding the date-only ISO text "yyyy-mm-dd"
IsoDate(y, m, d) == [t |-> "isodate", y |-> y, m |-> m, d |-> d]

\* a parse that turns any text it cannot read into the epoch, 1970-01-01
ParseDateEpoch(v) ==
    IF v.t = "isodate" /\ v.m \in 1..12 /\ v.d \in 1..31
    THEN NewDate(v.y, v.m - 1, v.d)
    ELSE NewDate(1970, 0, 1)

\* new Date(value) for a string: midnight UTC of an ISO date whose month is
\* 1..12 and whose day is 1..31 (a day past the end of the month runs on),
\* Invalid Date for any other text
ParseDate(v) ==
    IF v.t = "isodate" /\ v.m \in 1..12 /\ v.d \in 1..31
    THEN NewDate(v.y, v.m - 1, v.d)
    ELSE InvalidDate

\* Math.ceil(a / b) for b > 0
Ceil(a, b) == -((-a) \div b)


-----------------------------------------------------------------------------
(* The Birthday Filter: CustomerService.getUpcomingBirthdays *)

\* the value of diffDays for a birthdaydate value, NaN (not valid) when the
\* date does not parse
DiffDays(v, now) ==
    LET birthdayDate == ParseDate(v)
        first == IF birthdayDate.valid
                 THEN NewDate(getFullYear(now), getMonth(birthdayDate),
                              getDate(birthdayDate))
                 ELSE InvalidDate
        thisYearBirthday == IF first.valid /\ first.t < now.t
                            THEN setFullYear(first, getFullYear(now) + 1)
                            ELSE first
    IN  [valid |-> thisYearBirthday.valid,
         n |-> IF thisYearBirthday.valid
               THEN Ceil(thisYearBirthday.t - now.t, TicksPerDay)
               ELSE 0]

\* a filter whose window leaves out its last day
KeepsBeforeLastDay(customer, now, days) ==
    /\ "birthdaydate" \in DOMAIN customer.o
    /\ Truthy(customer.o["birthdaydate"])
    /\ LET diffDays == DiffDays(customer.o["birthdaydate"], now)
       IN  diffDays.valid /\ diffDays.n >= 0 /\ diffDays.n < days

\* a filter that never rolls a passed birthday forward to the next year
KeepsWithoutRoll(customer, now, days) ==
    /\ "birthdaydate" \in DOMAIN customer.o
    /\ Truthy(customer.o["birthdaydate"])
    /\ LET b == ParseDate(customer.o["birthdaydate"])
           n == Ceil(NewDate(getFullYear(now), getMonth(b), getDate(b)).t - now.t,
                     TicksPerDay)
       IN  b.valid /\ n >= 0 /\ n <= days

\* the predicate of customers.filter
Keeps(customer, now, days) ==
    /\ "birthdaydate" \in DOMAIN customer.o
    /\ Truthy(customer.o["birthdaydate"])
    /\ LET diffDays == DiffDays(customer.o["birthdaydate"], now)
       IN  diffDays.valid /\ diffDays.n >= 0 /\ diffDays.n <= days

FetchError ==
    [code |-> "FETCH_ERROR",
     message |-> "Failed to fetch customers for birthday filtering"]

ProcessingError(message) ==
    [success |-> FALSE,
     error |-> [code |-> "PROCESSING_ERROR",
                message |-> IF message # "" THEN message
                            ELSE "Unknown error occurred while processing birthdays"]]

\* the customers array: the body itself when it is an array, else its
\* Records property, else []
CustomersOf(data) ==
    IF data.t = "arr" THEN data
    ELSE IF data.t = "obj" /\ "Records" \in DOMAIN data.o /\ Truthy(data.o["Records"])
    THEN data.o["Records"]
    ELSE Arr(<<>>)

\* a getUpcomingBirthdays that tests result.success only: an empty body has
\* no Records and gives the empty list, a null body throws on the read of
\* Records
getUpcomingBirthdaysSuccessOnly(result, now, days) ==
    IF ~result.success
    THEN [success |-> FALSE,
          error |-> IF "error" \in DOMAIN result THEN result.error ELSE FetchError]
    ELSE IF result.data.t \in {"null", "undefined"}
    THEN ProcessingError("Cannot read properties of null (reading 'Records')")
    ELSE LET customers == CustomersOf(result.data)
         IN  IF customers.t # "arr"
             THEN ProcessingError("customers.filter is not a function")
             ELSE IF \E i \in 1..Len(customers.a) : customers.a[i].t # "obj"
             THEN ProcessingError("Cannot read properties of null (reading 'birthdaydate')")
             ELSE [success |-> TRUE,
                   data |-> Arr(SelectSeq(customers.a,
                                          LAMBDA c : Keeps(c, now, days)))]

\* a getUpcomingBirthdays that returns the kept customers last first
getUpcomingBirthdaysReversed(result, now, days) ==
    IF ~result.success \/ ~Truthy(result.data)
    THEN [success |-> FALSE,
          error |-> IF "error" \in DOMAIN result THEN result.error ELSE FetchError]
    ELSE LET customers == CustomersOf(result.data)
         IN  IF customers.t # "arr"
             THEN ProcessingError("customers.filter is not a function")
             ELSE IF \E i \in 1..Len(customers.a) : customers.a[i].t # "obj"
             THEN ProcessingError("Cannot read properties of null (reading 'birthdaydate')")
             ELSE LET kept == SelectSeq(customers.a, LAMBDA c : Keeps(c, now, days))
                  IN  [success |-> TRUE,
                       data |-> Arr([i \in 1..Len(kept) |-> kept[Len(kept) + 1 - i]])]

\* getUpcomingBirthdays after callApi has resolved with the envelope result
getUpcomingBirthdays(result, now, days) ==
    IF ~result.success \/ ~Truthy(result.data)
    THEN [success |-> FALSE,
          error |-> IF "error" \in DOMAIN result THEN result.error ELSE FetchError]
    ELSE LET customers == CustomersOf(result.data)
         IN  IF customers.t # "arr"
             THEN ProcessingError("customers.filter is not a function")
             ELSE IF \E i \in 1..Len(customers.a) : customers.a[i].t # "obj"
             THEN ProcessingError("Cannot read properties of null (reading 'birthdaydate')")
             ELSE [success |-> TRUE,
                   data |-> Arr(SelectSeq(customers.a,
                                          LAMBDA c : Keeps(c, now, days)))]

-----------------------------------------------------------------------------
(* The Request Handlers of the update endpoints and the shared error path *)

JsonResponse(status, body) == [status |-> status, body |-> body]

\* a handleError that answers 500 whatever the error carries
handleErrorAlways500(error) ==
    JsonResponse(500,
                 [success |-> FALSE,
                  message |-> IF "message" \in DOMAIN error /\ error.message # ""
                              THEN error.message
                              ELSE "An unexpected error occurred",
                  error |-> error.name \o ": " \o error.message])

\* handleError(error, res)
handleError(error) ==
    LET statusCode == IF "status" \in DOMAIN error /\ error.status # 0
                      THEN error.status
                      ELSE IF "statusCode" \in DOMAIN error /\ error.statusCode # 0
                      THEN error.statusCode
                      ELSE 500
        message == IF "message" \in DOMAIN error /\ error.message # ""
                   THEN error.message
                   ELSE "An unexpected error occurred"
    IN  JsonResponse(statusCode,
                     [success |-> FALSE, message |-> message,
                      error |-> error.name \o ": " \o error.message])

HandledResources == {"product", "repair", "order", "customer"}

IdRequired(resource) ==
    CASE resource = "product"  -> "Product ID is required"
      [] resource = "repair"   -> "Repair ticket ID is required"
      [] resource = "order"    -> "Order ID is required"
      [] resource = "customer" -> "Customer ID is required"

DataRequired(resource) ==
    CASE resource = "product"  -> "Product data is required"
      [] resource = "repair"   -> "Repair data is required"
      [] resource = "order"    -> "Order data is required"
      [] resource = "customer" -> "Customer data is required"

UpdateFailed(resource) ==
    CASE resource = "product"  -> "Failed to update product"
      [] resource = "repair"   -> "Failed to update repair ticket"
      [] resource = "order"    -> "Failed to update order"
      [] resource = "customer" -> "Failed to update customer"

UpdateSucceeded(resource) ==
    CASE resource = "product"  -> "Product updated successfully"
      [] resource = "repair"   -> "Repair ticket updated successfully"
      [] resource = "order"    -> "Order updated successfully"
      [] resource = "customer" -> "Customer updated successfully"

\* `${value}`
TemplateString(v) ==
    CASE v.t = "str" -> v.s
      [] v.t = "num" -> NumberToString(v.n)
      [] v.t = "bool" -> IF v.b THEN "true" ELSE "false"
      [] OTHER -> v.t

\* request.query.id, undefined when the query string has no id
QueryId(req) == IF "id" \in DOMAIN req.query THEN req.query["id"] ELSE Undefined

\* obj.id, undefined when the object has no own property id
IdOf(o) == IF "id" \in DOMAIN o THEN o["id"] ELSE Undefined

\* delete obj.id
DeleteId(o) == [k \in DOMAIN o \ {"id"} |-> o[k]]

\* an update handler (updateProduct, updateRepair, updateOrder,
\* updateCustomer) up to its Facade call: the response it writes at once,
\* or the callApi invocation its Facade method makes
UpdateHandlerEntry(resource, req) ==
    IF req.method # "PUT" /\ req.method # "POST"
    THEN [kind |-> "respond",
          response |-> JsonResponse(405, [success |-> FALSE,
                                          message |-> "Method Not Allowed"])]
    ELSE IF ~Truthy(QueryId(req)) /\ req.body.t # "obj"
    THEN [kind |-> "throw", from |-> "handler",
          error |-> [name |-> "TypeError",
                     message |-> "Cannot read properties of undefined (reading 'id')"]]
    ELSE LET id == IF Truthy(QueryId(req)) THEN QueryId(req) ELSE IdOf(req.body.o)
         IN  IF ~Truthy(id)
             THEN [kind |-> "respond",
                   response |-> JsonResponse(400, [success |-> FALSE,
                                                   message |-> IdRequired(resource)])]
             ELSE IF ~Truthy(req.body)
             THEN [kind |-> "respond",
                   response |-> JsonResponse(400, [success |-> FALSE,
                                                   message |-> DataRequired(resource)])]
             ELSE [kind |-> "call",
                   call |-> UpdateCall(resource, TemplateString(id),
                                       IF Truthy(IdOf(req.body.o))
                                       THEN DeleteId(req.body.o)
                                       ELSE req.body.o)]

\* an update handler after its Facade method has resolved with result
UpdateHandlerExit(resource, result) ==
    IF ~result.success
    THEN JsonResponse(500,
             [success |-> FALSE,
              message |-> IF "error" \in DOMAIN result /\ result.error.message # ""
                          THEN result.error.message
                          ELSE UpdateFailed(resource)])
    ELSE JsonResponse(200,
             [success |-> TRUE,
              data |-> IF "data" \in DOMAIN result THEN result.data ELSE Undefined,
              message |-> UpdateSucceeded(resource)])

-----------------------------------------------------------------------------
(* The Request Handlers of the other endpoints.  A handler is followed     *)
(* from the return of applyCors, which hands over every request but an     *)
(* OPTIONS preflight.                                                      *)

\* the endpoints other than the update endpoints: what each one does, the
\* Facade it calls, the fields its body must hold, and its fixed messages
Handlers ==
    [getProducts |->
        [kind |-> "list", resource |-> "product", fields |-> {}, required |-> "",
         failed |-> "Failed to fetch paginated products", succeeded |-> ""],
     getInvoices |->
        [kind |-> "list", resource |-> "invoice", fields |-> {}, required |-> "",
         failed |-> "Failed to fetch invoices", succeeded |-> ""],
     getRepairs |->
        [kind |-> "list", resource |-> "repair", fields |-> {}, required |-> "",
         failed |-> "Failed to fetch repairs", succeeded |-> ""],
     getInventory |->
        [kind |-> "list", resource |-> "inventory", fields |-> {}, required |-> "",
         failed |-> "Failed to fetch inventory", succeeded |-> ""],
     getLowStockInventory |->
        [kind |-> "list", resource |-> "inventory", fields |-> {}, required |-> "",
         failed |-> "Failed to fetch low stock items", succeeded |-> ""],
     getOrders |->
        [kind |-> "list", resource |-> "order", fields |-> {}, required |-> "",
         failed |-> "Failed to fetch orders", succeeded |-> ""],
     getCustomers |->
        [kind |-> "list", resource |-> "customer", fields |-> {}, required |-> "",
         failed |-> "Failed to fetch customers", succeeded |-> ""],
     getProductById |->
        [kind |-> "read", resource |-> "product", fields |-> {},
         required |-> "Product ID is required",
         failed |-> "Failed to fetch product", succeeded |-> ""],
     getRepairById |->
        [kind |-> "read", resource |-> "repair", fields |-> {},
         required |-> "Repair ticket ID is required",
         failed |-> "Failed to fetch repair ticket", succeeded |-> ""],
     getOrderById |->
        [kind |-> "read", resource |-> "order", fields |-> {},
         required |-> "Order ID is required",
         failed |-> "Failed to fetch order", succeeded |-> ""],
     getOrderItems |->
        [kind |-> "read", resource |-> "order", fields |-> {},
         required |-> "Order ID is required",
         failed |-> "Failed to fetch order items", succeeded |-> ""],
     getCustomerById |->
        [kind |-> "read", resource |-> "customer", fields |-> {},
         required |-> "Customer ID is required",
         failed |-> "Failed to fetch customer", succeeded |-> ""],
     createProduct |->
        [kind |-> "create", resource |-> "product", fields |-> {"name"},
         required |-> "Product data is required with at least a name",
         failed |-> "Failed to create product",
         succeeded |-> "Product created successfully"],
     createRepair |->
        [kind |-> "create", resource |-> "repair", fields |-> {"title"},
         required |-> "Repair data is required with at least an title",
         failed |-> "Failed to create repair ticket",
         succeeded |-> "Repair ticket created successfully"],
     createOrder |->
        [kind |-> "create", resource |-> "order",
         fields |-> {"accountid", "companyname"},
         required |-> "Order data is required with at least accountid and companyname",
         failed |-> "Failed to create order",
         succeeded |-> "Order created successfully"],
     createCustomer |->
        [kind |-> "create", resource |-> "customer", fields |-> {"accountname"},
         required |-> "Customer data is required with at least an account name",
         failed |-> "Failed to create customer",
         succeeded |-> "Customer created successfully"],
     deleteProduct |->
        [kind |-> "delete", resource |-> "product", fields |-> {},
         required |-> "Product ID is required",
         failed |-> "Failed to delete product",
         succeeded |-> "Product deleted successfully"],
     deleteRepair |->
        [kind |-> "delete", resource |-> "repair", fields |-> {},
         required |-> "Repair ticket ID is required",
         failed |-> "Failed to delete repair ticket",
         succeeded |-> "Repair ticket deleted successfully"],
     deleteOrder |->
        [kind |-> "delete", resource |-> "order", fields |-> {},
         required |-> "Order ID is required",
         failed |-> "Failed to delete order",
         succeeded |-> "Order deleted successfully"],
     deleteCustomer |->
        [kind |-> "delete", resource |-> "customer", fields |-> {},
         required |-> "Customer ID is required",
         failed |-> "Failed to delete customer",
         succeeded |-> "Customer deleted successfully"],
     getUpcomingBirthdays |->
        [kind |-> "getUpcomingBirthdays", resource |-> "customer", fields |-> {},
         required |-> "",
         failed |-> "Failed to fetch upcoming birthdays", succeeded |-> ""],
     queryCustomers |->
        [kind |-> "queryCustomers", resource |-> "customer", fields |-> {},
         required |-> "",
         failed |-> "Failed to query customers", succeeded |-> ""],
     callFireberryAPI |->
        [kind |-> "callFireberryAPI", resource |-> "none", fields |-> {"endpoint"},
         required |-> "Missing required parameter: endpoint",
         failed |-> "", succeeded |-> ""]]

\* the endpoints of one kind
EndpointsOf(kind) == {ep \in DOMAIN Handlers : Handlers[ep].kind = kind}

\* the HTTP methods the handlers of each kind let through
AcceptedMethods(kind) ==
    CASE kind = "list"                 -> {"GET"}
      [] kind = "read"                 -> {"GET"}
      [] kind = "getUpcomingBirthdays" -> {"GET"}
      [] kind = "create"               -> {"POST"}
      [] kind = "callFireberryAPI"     -> {"POST"}
      [] kind = "update"               -> {"PUT", "POST"}
      [] kind = "delete"               -> {"DELETE", "POST"}
      [] kind = "queryCustomers"       -> {"GET", "POST"}

Respond(response) == [kind |-> "respond", response |-> response]

MethodNotAllowed(ep) ==
    Respond(JsonResponse(405,
        [success |-> FALSE,
         message |-> IF ep = "callFireberryAPI"
                     THEN "Method Not Allowed. Use POST to call this endpoint."
                     ELSE "Method Not Allowed"]))

BadRequest(ep) ==
    Respond(JsonResponse(400, [success |-> FALSE, message |-> Handlers[ep].required]))

\* a read of a property of undefined throws a TypeError in the handler
ThrowsTypeError(message) ==
    [kind |-> "throw", from |-> "handler",
     error |-> [name |-> "TypeError", message |-> message]]

\* value.k: undefined when the value is no object or has no property k
Field(v, k) == IF v.t = "obj" /\ k \in DOMAIN v.o THEN v.o[k] ELSE Undefined

\* request.query.k: undefined when the query string has no k
QueryParam(req, k) == IF k \in DOMAIN req.query THEN req.query[k] ELSE Undefined

\* a || b
Or(a, b) == IF Truthy(a) THEN a ELSE b

\* a list handler up to its Facade call
ListHandlerEntry(ep, req) ==
    IF req.method # "GET" THEN MethodNotAllowed(ep)
    ELSE LET pageSize == ToNumber(Or(QueryParam(req, "pageSize"), Num(50)))
             pageNumber == ToNumber(Or(QueryParam(req, "pageNumber"), Num(1)))
         IN  [kind |-> "call",
              call |-> IF ep = "getLowStockInventory"
                       THEN getLowStock(pageSize, pageNumber)
                       ELSE getAll(Handlers[ep].resource, pageSize, pageNumber)]

\* a get-by-id handler up to its Facade call
ReadHandlerEntry(ep, req) ==
    IF req.method # "GET" THEN MethodNotAllowed(ep)
    ELSE LET id == QueryId(req)
         IN  IF ~Truthy(id) THEN BadRequest(ep)
             ELSE [kind |-> "call",
                   call |-> IF ep = "getOrderItems"
                            THEN getOrderItems(TemplateString(id))
                            ELSE getById(Handlers[ep].resource, TemplateString(id))]

\* a create handler without the check of the method
CreateHandlerEntryAnyMethod(ep, req) ==
    IF ~Truthy(req.body)
           \/ \E k \in Handlers[ep].fields : ~Truthy(Field(req.body, k))
    THEN BadRequest(ep)
    ELSE [kind |-> "call", call |-> CreateCall(Handlers[ep].resource, req.body.o)]

\* a create handler up to its Facade call
CreateHandlerEntry(ep, req) ==
    IF req.method # "POST" THEN MethodNotAllowed(ep)
    ELSE IF ~Truthy(req.body)
           \/ \E k \in Handlers[ep].fields : ~Truthy(Field(req.body, k))
    THEN BadRequest(ep)
    ELSE [kind |-> "call", call |-> CreateCall(Handlers[ep].resource, req.body.o)]

\* a delete handler up to its Facade call
DeleteHandlerEntry(ep, req) ==
    IF req.method # "DELETE" /\ req.method # "POST" THEN MethodNotAllowed(ep)
    ELSE IF ~Truthy(QueryId(req)) /\ req.body.t \in {"undefined", "null"}
    THEN ThrowsTypeError("Cannot read properties of undefined (reading 'id')")
    ELSE LET id == Or(QueryId(req), Field(req.body, "id"))
         IN  IF ~Truthy(id) THEN BadRequest(ep)
             ELSE [kind |-> "call",
                   call |-> deleteById(Handlers[ep].resource, TemplateString(id))]

\* the number of days the getUpcomingBirthdays handler asks for
BirthdayDays(req) == ToNumber(Or(QueryParam(req, "days"), Num(30)))

\* the getUpcomingBirthdays handler up to its Facade call
BirthdaysHandlerEntry(ep, req) ==
    IF req.method # "GET" THEN MethodNotAllowed(ep)
    ELSE [kind |-> "call",
          call |-> Call(apiRecordPath("customer") \o "?pagesize=50", "GET", Undefined)]

\* the parameters the queryCustomers handler hands to the Facade
QueryHandlerParams(queryParams) ==
    LET param(k) == IF k \in DOMAIN queryParams THEN queryParams[k] ELSE Undefined
    IN  [query         |-> Or(param("query"), Text(<<>>)),
         pageSize      |-> ToNumber(Or(param("pageSize"), Num(50))),
         pageNumber    |-> ToNumber(Or(param("pageNumber"), Num(1))),
         sortBy        |-> Or(param("sortBy"), Str("accountname")),
         sortDirection |-> Or(param("sortDirection"), Str("asc"))]

\* the queryCustomers handler up to the callApi invocation of its Facade
QueryHandlerEntry(ep, req) ==
    IF req.method # "GET" /\ req.method # "POST" THEN MethodNotAllowed(ep)
    ELSE IF req.method = "POST" /\ req.body.t \in {"undefined", "null"}
    THEN ThrowsTypeError("Cannot read properties of undefined (reading 'query')")
    ELSE LET queryParams == IF req.method = "GET" THEN req.query ELSE req.body.o
             params == QueryHandlerParams(queryParams)
         IN  IF queryCustomersThrows(params)
             THEN [kind |-> "throw", from |-> "facade",
                   error |-> [name |-> "TypeError",
                              message |-> "query.trim is not a function"]]
             ELSE [kind |-> "call", call |-> queryCustomers(params)]

\* a pass-through that builds its request the way callApi does
PassThroughConfigLikeCallApi(body) ==
    BuildConfig(TemplateString(Field(body, "endpoint")),
                IF Truthy(Field(body, "method")) THEN Field(body, "method").s ELSE "GET",
                Field(body, "payload"))

\* the request configuration callFireberryAPI hands to axios
PassThroughConfig(body) ==
    [url    |-> baseUrl \o "/" \o TemplateString(Field(body, "endpoint")),
     method |-> IF Truthy(Field(body, "method")) THEN Field(body, "method").s ELSE "GET",
     data   |-> Field(body, "payload")]

\* callFireberryAPI up to its await
PassThroughEntry(ep, req) ==
    IF req.method # "POST" THEN MethodNotAllowed(ep)
    ELSE IF req.body.t \in {"undefined", "null"}
    THEN ThrowsTypeError("Cannot destructure property 'endpoint' of 'request.body' as it is undefined.")
    ELSE IF ~Truthy(Field(req.body, "endpoint")) THEN BadRequest(ep)
    ELSE [kind |-> "forward", config |-> PassThroughConfig(req.body)]

\* the error axios rejects with, as handleError reads it: its name, its
\* message and, in the releases of axios that set it, the status of the
\* response
ThrownByAxios(error, withStatus) ==
    LET base == [name |-> IF withStatus THEN "AxiosError" ELSE "Error",
                 message |-> error.message]
    IN  IF withStatus /\ "response" \in DOMAIN error
        THEN base @@ [status |-> error.response.status]
        ELSE base

\* callFireberryAPI after axios has settled
PassThroughExit(o, withStatus) ==
    LET r == Axios(o)
    IN  IF r.ok
        THEN JsonResponse(200, [success |-> TRUE, data |-> r.response.data,
                                message |-> ""])
        ELSE handleError(ThrownByAxios(r.error, withStatus))

\* a handler that answers 200 also when the envelope reports a failure
HandlerExitAlwaysOk(ep, result) ==
    JsonResponse(200,
        [success |-> TRUE,
         data |-> IF Handlers[ep].kind = "delete" THEN Null
                  ELSE IF "data" \in DOMAIN result THEN result.data ELSE Undefined,
         message |-> Handlers[ep].succeeded])

\* a handler after its Facade method has resolved with result
HandlerExit(ep, result) ==
    IF ~result.success
    THEN JsonResponse(500,
             [success |-> FALSE,
              message |-> IF "error" \in DOMAIN result /\ result.error.message # ""
                          THEN result.error.message
                          ELSE Handlers[ep].failed])
    ELSE JsonResponse(200,
             [success |-> TRUE,
              data |-> IF Handlers[ep].kind = "delete" THEN Null
                       ELSE IF "data" \in DOMAIN result THEN result.data ELSE Undefined,
              message |-> Handlers[ep].succeeded])

\* corsHandler(req, res, next), the middleware made by cors({origin: true,
\* ...}): a preflight it answers itself, 204 without a body, and does not
\* call next; any other request it hands on to next
CorsHandler(req) ==
    IF req.method = "OPTIONS"
    THEN [next |-> FALSE, responses |-> <<[status |-> 204, body |-> Undefined]>>]
    ELSE [next |-> TRUE, responses |-> <<>>]

\* an applyCors whose promise resolves whether or not next was called
applyCorsResolvesAnyway(req) == Resolved(Undefined)

\* applyCors(req, res): the promise resolves when corsHandler calls next, and
\* stays pending when it does not
applyCors(req) ==
    IF CorsHandler(req).next THEN Resolved(Undefined) ELSE Pending

\* a handler up to its first await of the backend
HandlerEntry(ep, req) ==
    CASE Handlers[ep].kind = "list"                 -> ListHandlerEntry(ep, req)
      [] Handlers[ep].kind = "read"                 -> ReadHandlerEntry(ep, req)
      [] Handlers[ep].kind = "create"               -> CreateHandlerEntry(ep, req)
      [] Handlers[ep].kind = "delete"               -> DeleteHandlerEntry(ep, req)
      [] Handlers[ep].kind = "getUpcomingBirthdays" -> BirthdaysHandlerEntry(ep, req)
      [] Handlers[ep].kind = "queryCustomers"       -> QueryHandlerEntry(ep, req)
      [] Handlers[ep].kind = "callFireberryAPI"     -> PassThroughEntry(ep, req)


-----------------------------------------------------------------------------
(* The inputs the model draws from *)

\* the longest page of customer records the backend answers with
MaxPage == 2

\* marks a property an input object does not have; not a JavaScript value
Absent == [t |-> "absent"]

\* the objects whose property k is absent or holds a value of choices[k]
ObjectsOf(choices) ==
    LET all == UNION {choices[k] : k \in DOMAIN choices}
        picks == {g \in [DOMAIN choices -> all] : \A k \in DOMAIN choices : g[k] \in choices[k]}
    IN  {[k \in {j \in DOMAIN g : g[j] # Absent} |-> g[k]] : g \in picks}

Payloads ==
    ObjectsOf([id    |-> {Absent, Undefined, Null, Str(""), Str("Y"), Num(7)},
               name  |-> {Absent, Undefined, Str("foo")},
               price |-> {Absent, Undefined, Null, Num(0)}])

OrderPayloads ==
    ObjectsOf([accountid   |-> {Absent, Str(""), Str("A1")},
               companyname |-> {Absent, Undefined, Str("Acme")},
               price       |-> {Absent, Undefined, Num(0)}])

CreatePayloads(resource) == IF resource = "order" THEN OrderPayloads ELSE Payloads

Ids == {"X"}

GatewayEndpoints == {"api/record/account", "api/query"}

GatewayData ==
    {Undefined, Null, Bool(FALSE), Num(0), Str(""), Bool(TRUE), Num(5), Str("text"),
     Obj(<<>>), Obj([name |-> Str("A"), price |-> Undefined])}

Requests ==
    [method : {"GET", "PUT", "POST"},
     query  : {<<>>, [id |-> Str("X")], [id |-> Str("")]},
     body   : {Undefined} \cup {Obj(o) : o \in Payloads}]

WindowDays == {0, 15, 30, 366}

\* the values of "new Date()": a date and an hour of the day
Nows ==
    {NewDate(d[1], d[2], d[3]).t + h :
        d \in {<<2024, 5, 1>>, <<2024, 11, 20>>, <<2023, 11, 31>>, <<2023, 2, 1>>,
                <<2024, 1, 29>>, <<2023, 1, 20>>},
        h \in {0, 9, 23}}

BirthdayValues ==
    {IsoDate(1990, 6, 1), IsoDate(1990, 6, 15), IsoDate(1990, 5, 1),
     IsoDate(1990, 7, 1), IsoDate(1990, 12, 25), IsoDate(1985, 1, 2),
     IsoDate(1992, 2, 29), Str(""), Str("n/a")}

Customers ==
    {Obj([accountname |-> Str("A")])}
        \cup {Obj([accountname |-> Str("A"), birthdaydate |-> v]) : v \in BirthdayValues}

Pages == UNION {[1..n -> Customers] : n \in 0..MaxPage}

Statuses == {200, 201, 204, 400, 404, 500}

Bodies ==
    {Null, Str(""), Obj(<<>>), Obj([Message |-> Str("Invalid field")]),
     Obj([id |-> Str("X"), name |-> Str("foo")])}

NetworkMessages == {"Network Error", ""}

\* the methods of the requests that reach a handler
RequestMethods == {"GET", "POST", "PUT", "DELETE"}

ListRequests ==
    [method : RequestMethods,
     query  : {<<>>, [pageSize |-> Str("10")], [pageSize |-> Str("abc")],
               [pageSize |-> Str("0"), pageNumber |-> Str("2")]},
     body   : {Undefined}]

ReadRequests ==
    [method : RequestMethods,
     query  : {<<>>, [id |-> Str("X")], [id |-> Str("")]},
     body   : {Undefined}]

DeleteRequests ==
    [method : RequestMethods,
     query  : {<<>>, [id |-> Str("X")]},
     body   : {Undefined, Obj(<<>>), Obj([id |-> Str("Y")]), Obj([id |-> Str("")])}]

\* the JSON bodies sent to a create endpoint: each required field absent,
\* null, empty or filled
CreateBodies(ep) ==
    ObjectsOf([k \in Handlers[ep].fields \cup {"price"} |->
                  IF k = "price" THEN {Absent, Null, Num(0)}
                  ELSE {Absent, Null, Str(""), Str("A1")}])

CreateRequests(ep) ==
    [method : RequestMethods,
     query  : {<<>>},
     body   : {Undefined} \cup {Obj(o) : o \in CreateBodies(ep)}]

BirthdayRequests ==
    [method : RequestMethods,
     query  : {<<>>, [days |-> Str("15")], [days |-> Str("0")]},
     body   : {Undefined}]

\* the longest search text
MaxQuery == 2

QueryChars == {" ", "a"}

QueryTexts == {Text(c) : c \in UNION {[1..n -> QueryChars] : n \in 0..MaxQuery}}

\* the parameters of a GET on queryCustomers: all of them strings
QueryStrings ==
    ObjectsOf([query      |-> {Absent} \cup QueryTexts,
               pageSize   |-> {Absent, Str("10"), Str("50"), Str("51"), Str("0"),
                               Str("abc")},
               pageNumber |-> {Absent, Str("2")}])

\* the parameters of a POST on queryCustomers: JSON values
QueryBodies ==
    ObjectsOf([query    |-> {Absent, Num(5)} \cup QueryTexts,
               pageSize |-> {Absent, Num(10), Num(51), Num(0), Str("20")}])

QueryRequests ==
    [method : RequestMethods, query : QueryStrings, body : {Undefined}]
        \cup [method : RequestMethods, query : {<<>>},
              body : {Undefined} \cup {Obj(o) : o \in QueryBodies}]

\* the parameters a caller hands to customerService.queryCustomers
QueryParams ==
    ObjectsOf([query    |-> {Absent, Undefined} \cup QueryTexts,
               pageSize |-> {Absent, Undefined, Num(0), Num(10), Num(50), Num(51),
                             Num(100)}])

PassThroughRequests ==
    [method : RequestMethods,
     query  : {<<>>},
     body   : {Undefined} \cup
              {Obj(o) : o \in
                  ObjectsOf([endpoint |-> {Absent, Str(""), Str("api/record/account")},
                             method   |-> {Absent, Str("GET"), Str("POST"),
                                           Str("DELETE")},
                             payload  |-> {Absent, Null, Num(0),
                                           Obj([name |-> Str("foo")])}])}]

\* what the backend may do with the request of an invocation
Outcomes(i) ==
    {NetworkFailure(m) : m \in NetworkMessages}
        \cup {Response(st, b) : st \in Statuses, b \in Bodies}
        \cup IF i.op = "getUpcomingBirthdays"
             THEN {Response(200, Arr(p)) : p \in Pages}
                      \cup {Response(200, Obj([Records |-> Arr(p)])) : p \in Pages}
                      \cup {Response(200, Arr(<<Null>>)),
                            Response(200, Obj([Records |-> Str("none")]))}
             ELSE IF i.op = "queryCustomers"
             THEN {Response(200, Obj([Data |-> d])) :
                      d \in {Arr(<<>>), Arr(<<Obj([accountname |-> Str("A")])>>),
                             Str("none")}}
             ELSE {}

-----------------------------------------------------------------------------
(* The state machine *)

NoInvocation == [layer |-> "none", op |-> "none"]

NoOutcome == [kind |-> "none"]

\* no exception
NoError == [name |-> "none"]

\* the variables of an invocation, before there is one
NoRegisters ==
    [pc |-> "idle", inv |-> NoInvocation, sent |-> <<>>, outcome |-> NoOutcome,
     gw |-> Pending, promise |-> Pending, responses |-> <<>>, today |-> 0,
     caught |-> NoError]

Init ==
    /\ pc = "idle"
    /\ inv = NoInvocation
    /\ sent = <<>>
    /\ outcome = NoOutcome
    /\ gw = Pending
    /\ promise = Pending
    /\ responses = <<>>
    /\ today = 0
    /\ caught = NoError
    /\ service = NewFireberryService
    /\ parked = NoRegisters

\* a callApi that keeps the address it built in the field it built it from
IssueRebasing(call) ==
    /\ sent' = Append(sent, BuildConfig(call.endpoint, call.method, call.data))
    /\ service' = [service EXCEPT !.baseUrl = service.baseUrl \o "/" \o call.endpoint]
    /\ pc' = "awaiting"
    /\ UNCHANGED <<parked, outcome, gw, promise, responses, today, caught>>

\* a callApi that hands its configuration to axios a second time
IssueTwice(call) ==
    /\ sent' = sent \o <<BuildConfig(call.endpoint, call.method, call.data),
                          BuildConfig(call.endpoint, call.method, call.data)>>
    /\ pc' = "awaiting"
    /\ UNCHANGED <<service, parked, outcome, gw, promise, responses, today, caught>>

\* callApi up to its await: the configuration goes to axios
Issue(call) ==
    /\ sent' = Append(sent, BuildConfig(call.endpoint, call.method, call.data))
    /\ pc' = "awaiting"
    /\ UNCHANGED <<service, parked, outcome, gw, promise, responses, today, caught>>

\* a caller invokes fireberryService.callApi(endpoint, method, data)
GatewayInvoke ==
    /\ pc = "idle"
    /\ \E e \in GatewayEndpoints, m \in HttpMethod, d \in GatewayData :
        /\ inv' = [layer |-> "gateway", op |-> "callApi",
                   args |-> [endpoint |-> e, method |-> m, data |-> d]]
        /\ Issue(Call(e, m, d))

\* a caller invokes a Facade's create method
FacadeCreate ==
    /\ pc = "idle"
    /\ \E r \in Resources :
        \E o \in CreatePayloads(r) :
          /\ inv' = [layer |-> "facade", op |-> "create", resource |-> r,
                     args |-> [payload |-> o]]
          /\ IF r = "order" /\ createOrderRejects(o)
             THEN /\ promise' = Resolved(createOrderError)
                  /\ pc' = "settled"
                  /\ UNCHANGED <<service, parked, sent, outcome, gw, responses, today, caught>>
             ELSE Issue(CreateCall(r, o))

\* a caller invokes a Facade's update method
FacadeUpdate ==
    /\ pc = "idle"
    /\ \E r \in Resources, id \in Ids, o \in Payloads :
        /\ inv' = [layer |-> "facade", op |-> "update", resource |-> r,
                   args |-> [id |-> id, payload |-> o]]
        /\ Issue(UpdateCall(r, id, o))

\* a caller invokes customerService.getUpcomingBirthdays(days)
FacadeBirthdays ==
    /\ pc = "idle"
    /\ \E days \in WindowDays :
        /\ inv' = [layer |-> "facade", op |-> "getUpcomingBirthdays",
                   resource |-> "customer", args |-> [days |-> days]]
        /\ Issue(Call("api/record/account?pagesize=50", "GET", Undefined))

\* a handler whose catch clause logs the exception and writes no response
HandleCatchSilent(entry) ==
    CASE entry.kind = "respond" ->
            /\ responses' = Append(responses, entry.response)
            /\ pc' = "settled"
            /\ UNCHANGED <<service, parked, sent, outcome, gw, promise, today, caught>>
      [] entry.kind = "throw" ->
            /\ promise' = IF entry.from = "facade" THEN Rejected(entry.error.name)
                          ELSE promise
            /\ caught' = entry.error
            /\ pc' = "settled"
            /\ UNCHANGED <<service, parked, sent, outcome, gw, today, responses>>
      [] entry.kind = "call" -> Issue(entry.call)
      [] entry.kind = "forward" ->
            /\ sent' = Append(sent, entry.config)
            /\ pc' = "forwarding"
            /\ UNCHANGED <<service, parked, outcome, gw, promise, responses, today, caught>>

\* a handler runs up to its first await of the backend, or to its end: it
\* answers at once, or an exception takes it to its catch clause, which
\* answers through handleError, or it makes its outbound request
Handle(entry) ==
    CASE entry.kind = "respond" ->
            /\ responses' = Append(responses, entry.response)
            /\ pc' = "settled"
            /\ UNCHANGED <<service, parked, sent, outcome, gw, promise, today, caught>>
      [] entry.kind = "throw" ->
            /\ promise' = IF entry.from = "facade" THEN Rejected(entry.error.name)
                          ELSE promise
            /\ caught' = entry.error
            /\ responses' = Append(responses, handleError(entry.error))
            /\ pc' = "settled"
            /\ UNCHANGED <<service, parked, sent, outcome, gw, today>>
      [] entry.kind = "call" -> Issue(entry.call)
      [] entry.kind = "forward" ->
            /\ sent' = Append(sent, entry.config)
            /\ pc' = "forwarding"
            /\ UNCHANGED <<service, parked, outcome, gw, promise, responses, today, caught>>

\* a handler from its start: it awaits applyCors, and runs on only when that
\* promise resolves; a preflight leaves it suspended at the await for good,
\* with the answer the CORS step wrote
Enter(req, entry) ==
    IF applyCors(req).state = "resolved"
    THEN Handle(entry)
    ELSE /\ responses' = responses \o CorsHandler(req).responses
         /\ pc' = "suspended"
         /\ UNCHANGED <<service, parked, sent, outcome, gw, promise, today, caught>>

\* a request arrives at an update endpoint
HandlerUpdate ==
    /\ pc = "idle"
    /\ \E r \in HandledResources, req \in Requests :
        /\ inv' = [layer |-> "handler", op |-> "update", resource |-> r,
                   args |-> [req |-> req]]
        /\ Enter(req, UpdateHandlerEntry(r, req))

\* the invocation of the handler of endpoint ep with request req
HandlerInvocation(ep, req) ==
    [layer |-> "handler", op |-> Handlers[ep].kind, endpoint |-> ep,
     resource |-> Handlers[ep].resource, args |-> [req |-> req]]

\* a request arrives at a list endpoint
HandlerList ==
    /\ pc = "idle"
    /\ \E ep \in EndpointsOf("list"), req \in ListRequests :
        /\ inv' = HandlerInvocation(ep, req)
        /\ Enter(req, HandlerEntry(ep, req))

\* a request arrives at a get-by-id endpoint
HandlerRead ==
    /\ pc = "idle"
    /\ \E ep \in EndpointsOf("read"), req \in ReadRequests :
        /\ inv' = HandlerInvocation(ep, req)
        /\ Enter(req, HandlerEntry(ep, req))

\* a request arrives at a create endpoint
HandlerCreate ==
    /\ pc = "idle"
    /\ \E ep \in EndpointsOf("create") :
        \E req \in CreateRequests(ep) :
          /\ inv' = HandlerInvocation(ep, req)
          /\ Enter(req, HandlerEntry(ep, req))

\* a request arrives at a delete endpoint
HandlerDelete ==
    /\ pc = "idle"
    /\ \E ep \in EndpointsOf("delete"), req \in DeleteRequests :
        /\ inv' = HandlerInvocation(ep, req)
        /\ Enter(req, HandlerEntry(ep, req))

\* a request arrives at the getUpcomingBirthdays endpoint
HandlerBirthdays ==
    /\ pc = "idle"
    /\ \E req \in BirthdayRequests :
        /\ inv' = [HandlerInvocation("getUpcomingBirthdays", req) EXCEPT
                      !.args = [req |-> req, days |-> BirthdayDays(req).n]]
        /\ Enter(req, HandlerEntry("getUpcomingBirthdays", req))

\* a request arrives at the queryCustomers endpoint
HandlerQuery ==
    /\ pc = "idle"
    /\ \E req \in QueryRequests :
        /\ inv' = HandlerInvocation("queryCustomers", req)
        /\ Enter(req, HandlerEntry("queryCustomers", req))

\* a request arrives at the callFireberryAPI endpoint
HandlerPassThrough ==
    /\ pc = "idle"
    /\ \E req \in PassThroughRequests :
        /\ inv' = HandlerInvocation("callFireberryAPI", req)
        /\ Enter(req, HandlerEntry("callFireberryAPI", req))

\* a caller invokes customerService.queryCustomers(params)
FacadeQuery ==
    /\ pc = "idle"
    /\ \E params \in QueryParams :
        /\ inv' = [layer |-> "facade", op |-> "queryCustomers",
                   resource |-> "customer", args |-> [params |-> params]]
        /\ Issue(queryCustomers(params))

\* the preflight requests of a browser
PreflightRequests ==
    [method : {"OPTIONS"},
     query  : {<<>>, [id |-> Str("X")]},
     body   : {Undefined}]

\* a preflight request arrives at an endpoint
HandlerPreflight ==
    /\ pc = "idle"
    /\ \E req \in PreflightRequests :
        \/ \E ep \in DOMAIN Handlers :
              /\ inv' = [HandlerInvocation(ep, req) EXCEPT !.layer = "preflight"]
              /\ Enter(req, HandlerEntry(ep, req))
        \/ \E r \in HandledResources :
              /\ inv' = [layer |-> "preflight", op |-> "update", resource |-> r,
                         args |-> [req |-> req]]
              /\ Enter(req, UpdateHandlerEntry(r, req))

\* axios settles the request callFireberryAPI made, and the handler answers
PassThroughSettles ==
    /\ pc = "forwarding"
    /\ \E o \in Outcomes(inv), withStatus \in BOOLEAN :
        /\ outcome' = o
        /\ caught' = IF Axios(o).ok THEN caught
                     ELSE ThrownByAxios(Axios(o).error, withStatus)
        /\ responses' = Append(responses, PassThroughExit(o, withStatus))
        /\ pc' = "settled"
        /\ UNCHANGED <<service, parked, inv, sent, gw, promise, today>>

\* the promise of the Facade method of invocation i, once callApi has
\* returned the promise g and "new Date()" reads now
FacadeResult(i, g, now) ==
    IF i.op = "getUpcomingBirthdays"
    THEN IF g.state = "rejected"
         THEN Resolved(ProcessingError(""))
         ELSE Resolved(getUpcomingBirthdays(g.value, DateOfTime(now), i.args.days))
    ELSE IF i.op = "queryCustomers"
    THEN IF g.state = "rejected" THEN g
         ELSE Resolved(queryCustomersResult(g.value))
    ELSE g

\* the response the handler of invocation i writes after its await, the
\* Facade method having returned the promise p
HandlerResponse(i, p) ==
    IF p.state = "rejected"
    THEN handleError([name |-> p.reason, message |-> ""])
    ELSE IF i.op = "update"
    THEN UpdateHandlerExit(i.resource, p.value)
    ELSE HandlerExit(i.endpoint, p.value)

\* axios settles, callApi returns, and the caller's continuation runs to its end
AxiosSettles ==
    /\ pc = "awaiting"
    /\ \E o \in Outcomes(inv),
          now \in IF inv.op = "getUpcomingBirthdays" THEN Nows ELSE {today} :
        /\ outcome' = o
        /\ gw' = CallApiSettle(o)
        /\ today' = now
        /\ promise' = FacadeResult(inv, gw', now)
        /\ responses' =
            IF inv.layer = "handler"
            THEN Append(responses, HandlerResponse(inv, promise'))
            ELSE responses
        /\ caught' = IF inv.layer = "handler" /\ promise'.state = "rejected"
                     THEN [name |-> promise'.reason, message |-> ""]
                     ELSE caught
        /\ pc' = "settled"
        /\ UNCHANGED <<service, parked, inv, sent>>

\* the invocation is over; nothing of it is kept
Finish ==
    /\ pc \in {"settled", "suspended"}
    /\ pc' = "idle"
    /\ inv' = NoInvocation
    /\ sent' = <<>>
    /\ outcome' = NoOutcome
    /\ gw' = Pending
    /\ promise' = Pending
    /\ responses' = <<>>
    /\ today' = 0
    /\ caught' = NoError
    /\ UNCHANGED <<service, parked>>

Next ==
    \/ GatewayInvoke
    \/ FacadeCreate
    \/ FacadeUpdate
    \/ FacadeBirthdays
    \/ HandlerUpdate
    \/ HandlerList
    \/ HandlerRead
    \/ HandlerCreate
    \/ HandlerDelete
    \/ HandlerBirthdays
    \/ HandlerQuery
    \/ HandlerPassThrough
    \/ FacadeQuery
    \/ HandlerPreflight
    \/ PassThroughSettles
    \/ AxiosSettles
    \/ Finish

Spec == Init /\ [][Next]_vars

-----------------------------------------------------------------------------
(* Two invocations in progress at once *)

\* the variables of the invocation the event loop is running
Registers ==
    [pc |-> pc, inv |-> inv, sent |-> sent, outcome |-> outcome, gw |-> gw,
     promise |-> promise, responses |-> responses, today |-> today,
     caught |-> caught]

\* the event loop turns to the other invocation: each handler runs
\* unbroken from one await to the next, so the steps of two invocations
\* interleave at exactly the places where the actions above begin and end
Switch ==
    /\ parked # Registers
    /\ pc' = parked.pc
    /\ inv' = parked.inv
    /\ sent' = parked.sent
    /\ outcome' = parked.outcome
    /\ gw' = parked.gw
    /\ promise' = parked.promise
    /\ responses' = parked.responses
    /\ today' = parked.today
    /\ caught' = parked.caught
    /\ parked' = Registers
    /\ UNCHANGED service

\* requests to the get-by-id endpoints, two at a time
ConcurrentNext ==
    \/ HandlerRead
    \/ AxiosSettles
    \/ Finish
    \/ Switch

ConcurrentSpec == Init /\ [][ConcurrentNext]_vars


-----------------------------------------------------------------------------
(* Properties *)

Range(f) == {f[i] : i \in DOMAIN f}

\* callApi has been invoked and has returned
GatewayReturned == pc = "settled" /\ Len(sent) > 0 /\ inv.op # "callFireberryAPI"

\* the backend call failed: no response, or a response outside 2xx
CallFailed ==
    \/ outcome.kind = "network"
    \/ outcome.kind = "response" /\ ~(outcome.status >= 200 /\ outcome.status < 300)

CallSucceeded ==
    outcome.kind = "response" /\ outcome.status >= 200 /\ outcome.status < 300

\* C1: callApi never signals failure by throwing: whatever the endpoint,
\* method and data and whatever the outcome of the outbound call, its
\* promise resolves to a result envelope and never rejects.
C1_CallApiNeverRejects ==
    /\ gw.state # "rejected"
    /\ GatewayReturned => gw.state = "resolved" /\ "success" \in DOMAIN gw.value

C1_Witness ==
    /\ GatewayReturned
    /\ outcome.kind = "network"
    /\ gw.state = "resolved"

\* the decimal text of the statuses the backend answers with
StatusText(st) ==
    CASE st = 400 -> "400" [] st = 404 -> "404" [] st = 500 -> "500"
      [] st = 200 -> "200" [] st = 201 -> "201" [] st = 204 -> "204"

\* C2: for every non-2xx or network-failed call the envelope has success
\* false, error.code is the status as a string when there is a response
\* and "unknown" otherwise, and error.message is not empty.
C2_FailureEnvelope ==
    (GatewayReturned /\ CallFailed) =>
        /\ gw.state = "resolved"
        /\ gw.value.success = FALSE
        /\ gw.value.error.code =
               (IF outcome.kind = "response" THEN StatusText(outcome.status)
                ELSE "unknown")
        /\ gw.value.error.message # ""

C2_Witness ==
    /\ GatewayReturned
    /\ outcome.kind = "response" /\ outcome.status = 404
    /\ gw.value.error.code = "404"
    /\ gw.value.error.message = "Request failed with status code 404"

\* the message the backend put into its error response, "" when none
BackendMessage ==
    IF /\ outcome.kind = "response"
       /\ outcome.body.t = "obj"
       /\ "Message" \in DOMAIN outcome.body.o
       /\ Truthy(outcome.body.o["Message"])
    THEN outcome.body.o["Message"].s
    ELSE ""

\* C3 (as claimed): on a failed call error.message is the backend's message
\* if its error response has one, else the error's own description, else
\* "Unknown error occurred".
C3_MessagePrecedence ==
    (GatewayReturned /\ CallFailed) =>
        gw.value.error.message =
            (IF BackendMessage # "" THEN BackendMessage
             ELSE IF Axios(outcome).error.message # ""
             THEN Axios(outcome).error.message
             ELSE "Unknown error occurred")

\* C4: for every 2xx response the envelope is exactly {success: true,
\* data: body}: data is the parsed body whatever it is and there is no
\* error field.
C4_SuccessEnvelope ==
    (GatewayReturned /\ CallSucceeded) =>
        /\ gw.state = "resolved"
        /\ gw.value = [success |-> TRUE, data |-> outcome.body]
        /\ "error" \notin DOMAIN gw.value

C4_Witness ==
    /\ GatewayReturned
    /\ outcome.kind = "response" /\ outcome.status = 204 /\ outcome.body = Str("")
    /\ gw.value.success /\ gw.value.data = Str("")

\* C5 (as claimed): a GET or DELETE request never carries a body, and a
\* POST, PUT or PATCH request carries exactly the supplied data for every
\* supplied value, falsy ones included.
C5_BodyIffWriteMethod ==
    (inv.layer = "gateway" /\ Len(sent) > 0) =>
        LET body == WireBody(sent[1])
        IN  IF inv.args.method \in {"GET", "DELETE"}
            THEN ~body.present
            ELSE inv.args.data # Undefined =>
                     body.present /\ body.json = JsonStringify(inv.args.data)

\* the payload handed to an update or create operation
InputPayload ==
    IF inv.layer = "handler" THEN inv.args.req.body.o ELSE inv.args.payload

\* C6 (as claimed): for every update operation, when the payload has an id
\* field the body of the outgoing call has none, and the path addresses the
\* id given as the path argument.
C6_UpdateBodyHasNoId ==
    (inv.op = "update" /\ Len(sent) > 0 /\ "id" \in DOMAIN InputPayload) =>
        /\ "id" \notin DOMAIN WireBody(sent[1]).json.o
        /\ inv.layer = "facade" =>
               \E base \in {"api/record/account", "api/record/product",
                            "api/record/crmorder", "invoices", "api/record/cases",
                            "api/record/inventory"} :
                   sent[1].url = baseUrl \o "/" \o base \o "/" \o inv.args.id

\* C7: for every create and update operation of every Facade the outgoing
\* body has exactly the fields of the payload whose value is not undefined,
\* each with its value unchanged.
C7_AbsentFieldsOmitted ==
    (inv.layer = "facade" /\ inv.op \in {"create", "update"} /\ Len(sent) > 0) =>
        LET body == WireBody(sent[1])
            o == inv.args.payload
        IN  /\ body.present
            /\ body.json.t = "obj"
            /\ DOMAIN body.json.o = {k \in DOMAIN o : o[k].t # "undefined"}
            /\ \A k \in DOMAIN body.json.o : body.json.o[k] = o[k]

C7_Witness ==
    /\ inv.layer = "facade" /\ inv.op = "create" /\ inv.resource = "inventory"
    /\ Len(sent) > 0
    /\ inv.args.payload = [name |-> Str("foo"), price |-> Undefined]
    /\ WireBody(sent[1]).json = Obj([name |-> Str("foo")])


\* getUpcomingBirthdays has returned a filtered list
BirthdaysReturned ==
    /\ pc = "settled"
    /\ inv.op = "getUpcomingBirthdays"
    /\ promise.state = "resolved"
    /\ promise.value.success

\* the customer records of the fetched page, and those of the result
FetchedPage == Range(CustomersOf(outcome.body).a)

Kept == Range(promise.value.data.a)

\* the customer has a birth date that parses
HasBirthDate(c) ==
    "birthdaydate" \in DOMAIN c.o /\ c.o["birthdaydate"].t = "isodate"

BirthDate(c) == c.o["birthdaydate"]

\* a birth date of 29 February, whose occurrence in a year without that day
\* is a matter of its own
IsLeapDay(b) == b.m = 2 /\ b.d = 29

\* the calendar day of "today", and its <<year, month index, day of month>>
TodayDay == today \div TicksPerDay

TodayCivil == CivilOfDay(TodayDay)

\* C8 (as claimed): a customer whose birth month and day are today's month
\* and day is included, with 0 days remaining, for every windowDays >= 0 and
\* at whatever time of day the call is made.  Stated for the birth dates
\* other than 29 February.
C8_BirthdayTodayIncluded ==
    BirthdaysReturned =>
        \A c \in FetchedPage :
            (/\ HasBirthDate(c)
             /\ ~IsLeapDay(BirthDate(c))
             /\ BirthDate(c).m - 1 = TodayCivil[2]
             /\ BirthDate(c).d = TodayCivil[3])
            => /\ c \in Kept
               /\ DiffDays(BirthDate(c), DateOfTime(today)).n = 0

\* the number of calendar days from day z to the first day on or after it
\* whose month is m and whose day of month is d
DaysToNext(z, m, d) ==
    LET y0 == CivilOfDay(z)[1]
        occurrences == {MakeDay(y, m - 1, d) : y \in y0..(y0 + 8)}
        ahead == {o \in occurrences : o >= z /\ CivilOfDay(o)[2] = m - 1
                                             /\ CivilOfDay(o)[3] = d}
    IN  (CHOOSE o \in ahead : \A p \in ahead : o <= p) - z

\* C9 (as claimed): a customer with a parseable birth date is kept if and
\* only if the number of calendar days from today to the next occurrence of
\* the birth month and day lies in [0, windowDays].  Stated for the birth
\* dates other than 29 February.
C9_KeptIffWithinWindow ==
    BirthdaysReturned =>
        \A c \in FetchedPage :
            (HasBirthDate(c) /\ ~IsLeapDay(BirthDate(c))) =>
                (c \in Kept <=>
                    DaysToNext(TodayDay, BirthDate(c).m, BirthDate(c).d)
                        <= inv.args.days)

\* C10: a birthday whose occurrence in the current year fell on a day before
\* today is counted to its occurrence in the next year, and kept if and only
\* if that count is within the window; with today = 2024-12-20 and
\* windowDays = 15, "1985-01-02" is kept with 13 days remaining.
C10_PassedBirthdayRollsToNextYear ==
    BirthdaysReturned =>
        \A c \in FetchedPage :
            HasBirthDate(c) =>
                LET b == BirthDate(c)
                    n == MakeDay(TodayCivil[1] + 1, b.m - 1, b.d) - TodayDay
                    diffDays == DiffDays(b, DateOfTime(today))
                IN  /\ (/\ ~IsLeapDay(b)
                        /\ MakeDay(TodayCivil[1], b.m - 1, b.d) < TodayDay)
                       => /\ diffDays.valid /\ diffDays.n = n
                          /\ c \in Kept <=> n <= inv.args.days
                    /\ (/\ TodayCivil = <<2024, 11, 20>>
                        /\ inv.args.days = 15
                        /\ b = IsoDate(1985, 1, 2))
                       => c \in Kept /\ diffDays.n = 13

C10_Witness ==
    /\ BirthdaysReturned
    /\ TodayCivil = <<2024, 11, 20>>
    /\ today % TicksPerDay = 9
    /\ inv.args.days = 15
    /\ \E c \in Kept : BirthDate(c) = IsoDate(1985, 1, 2)


\* the backend answered with a page of customer records, as an array or
\* under Records
PageFetched ==
    /\ pc = "settled"
    /\ inv.op = "getUpcomingBirthdays"
    /\ CallSucceeded
    /\ LET page == IF outcome.body.t = "obj" /\ "Records" \in DOMAIN outcome.body.o
                   THEN outcome.body.o["Records"]
                   ELSE outcome.body
       IN  page.t = "arr" /\ Range(page.a) \subseteq Customers

\* C11: a customer whose birthdaydate is missing, empty or unparseable is
\* excluded from the result of getUpcomingBirthdays and never makes the
\* operation fail: the envelope is success true and the other customers are
\* filtered as they are without it.
C11_UnparseableBirthdaysExcluded ==
    PageFetched =>
        /\ promise.state = "resolved"
        /\ promise.value.success = TRUE
        /\ \A c \in FetchedPage :
            IF HasBirthDate(c)
            THEN c \in Kept <=> Keeps(c, DateOfTime(today), inv.args.days)
            ELSE c \notin Kept

C11_Witness ==
    /\ PageFetched
    /\ promise.value.success
    /\ \E c \in FetchedPage :
           "birthdaydate" \in DOMAIN c.o /\ c.o["birthdaydate"] = Str("n/a")
    /\ \E c \in FetchedPage : HasBirthDate(c) /\ c \in Kept


\* the request a handler was invoked with
Request == inv.args.req

\* the handler lets the method of the request through
MethodAccepted == Request.method \in AcceptedMethods(inv.op)

\* the value is missing: absent, null or empty
Missing(v) == v.t \in {"undefined", "null"} \/ v = Str("")

\* the request lacks an input its endpoint requires: a field of the body for
\* the create endpoints and callFireberryAPI, the id in the query string for
\* the get-by-id endpoints, the id in the query string and in the body for
\* the update and delete endpoints
LacksRequiredInput ==
    CASE inv.op \in {"create", "callFireberryAPI"} ->
            \E k \in Handlers[inv.endpoint].fields : Missing(Field(Request.body, k))
      [] inv.op = "read" -> Missing(QueryId(Request))
      [] inv.op \in {"update", "delete"} ->
            Missing(QueryId(Request)) /\ Missing(Field(Request.body, "id"))
      [] OTHER -> FALSE

\* C12 (as claimed): for every request that lacks a required input the
\* handler responds with HTTP 400 and makes no outbound backend call.
C12_MissingInputIs400 ==
    (inv.layer = "handler" /\ MethodAccepted /\ LacksRequiredInput) =>
        /\ pc = "settled"
        /\ Len(sent) = 0
        /\ Len(responses) = 1
        /\ responses[1].status = 400
        /\ responses[1].body.success = FALSE

\* C13: for every endpoint and every method outside its accepted set the
\* handler responds 405 with success false, and neither the Facade method
\* nor an outbound backend call is invoked.
C13_WrongMethodIs405 ==
    (inv.layer = "handler" /\ ~MethodAccepted) =>
        /\ pc = "settled"
        /\ Len(sent) = 0
        /\ promise = Pending /\ gw = Pending
        /\ Len(responses) = 1
        /\ responses[1].status = 405
        /\ responses[1].body.success = FALSE

C13_Witness ==
    /\ inv.layer = "handler"
    /\ inv.op = "queryCustomers"
    /\ Request.method = "DELETE"
    /\ responses = <<JsonResponse(405, [success |-> FALSE,
                                        message |-> "Method Not Allowed"])>>


\* C14: every invocation performs at most one outbound backend call on
\* every path: a request is handed to axios only at the start of an
\* invocation, never after a call has been made or has failed, and once the
\* invocation has settled its response and its result stay as they are.
C14_AtMostOneOutboundCall ==
    [][/\ Len(sent') <= 1
       /\ Len(responses') <= 1
       /\ Len(sent') > Len(sent) => pc = "idle"
       /\ pc = "settled" => sent' = <<>> /\ responses' = <<>>]_vars

C14_Witness ==
    /\ inv.layer = "handler"
    /\ inv.op = "getUpcomingBirthdays"
    /\ pc = "settled"
    /\ CallFailed
    /\ Len(sent) = 1
    /\ Len(responses) = 1 /\ responses[1].status = 500

\* the default message of the invoked handler for a failed Facade call
DefaultFailureMessage ==
    IF inv.op = "update" THEN UpdateFailed(inv.resource)
    ELSE Handlers[inv.endpoint].failed

\* the message of the invoked handler for a Facade call that succeeded
SuccessMessage ==
    IF inv.op = "update" THEN UpdateSucceeded(inv.resource)
    ELSE Handlers[inv.endpoint].succeeded

\* the handler has called its Facade method, which has returned an envelope
FacadeReturned ==
    /\ inv.layer = "handler"
    /\ pc = "settled"
    /\ promise.state = "resolved"

\* C15: for every handler that reaches its Facade call, an envelope with
\* success false gives status 500 and body {success: false, message} with
\* the envelope's error.message or, when that is empty or absent, the
\* handler's default; an envelope with success true gives status 200 and
\* body {success: true, data, message}, data being the envelope's data
\* (null for the delete endpoints).
C15_EnvelopeToResponse ==
    FacadeReturned =>
        LET envelope == promise.value
            message == IF "error" \in DOMAIN envelope /\ envelope.error # Undefined
                       THEN envelope.error.message
                       ELSE ""
        IN  /\ Len(responses) = 1
            /\ IF envelope.success
               THEN /\ responses[1].status = 200
                    /\ DOMAIN responses[1].body = {"success", "data", "message"}
                    /\ responses[1].body.success = TRUE
                    /\ responses[1].body.data =
                           (IF inv.op = "delete" THEN Null
                            ELSE IF "data" \in DOMAIN envelope THEN envelope.data
                            ELSE Undefined)
                    /\ responses[1].body.message = SuccessMessage
               ELSE /\ responses[1].status = 500
                    /\ responses[1].body =
                           [success |-> FALSE,
                            message |-> IF message # "" THEN message
                                        ELSE DefaultFailureMessage]

C15_Witness ==
    /\ FacadeReturned
    /\ inv.op = "read"
    /\ outcome.kind = "response" /\ outcome.status = 404
    /\ responses = <<JsonResponse(500,
                        [success |-> FALSE,
                         message |-> "Request failed with status code 404"])>>


\* an exception has escaped the logic of the invoked handler
ExceptionEscaped == caught # NoError

\* C16: every exception that escapes a handler's logic is caught and answered
\* with one HTTP response whose status is error.status if the error has one,
\* else error.statusCode if it has one, else 500, and whose body has success
\* false and a message; none propagates out of the handler.
C16_ExceptionsAnswered ==
    ExceptionEscaped =>
        /\ inv.layer = "handler"
        /\ pc = "settled"
        /\ Len(responses) = 1
        /\ responses[1].status =
               (IF "status" \in DOMAIN caught THEN caught.status
                ELSE IF "statusCode" \in DOMAIN caught THEN caught.statusCode
                ELSE 500)
        /\ responses[1].body.success = FALSE
        /\ "message" \in DOMAIN responses[1].body
        /\ responses[1].body.message # ""

C16_Witness ==
    /\ ExceptionEscaped
    /\ inv.op = "callFireberryAPI"
    /\ outcome.kind = "response" /\ outcome.status = 404
    /\ caught.name = "AxiosError" /\ caught.status = 404
    /\ responses[1].status = 404
    /\ responses[1].body.message = "Request failed with status code 404"

\* the search text given to queryCustomers: the query parameter of the
\* Facade call, of the query string (GET) or of the body (POST)
GivenQueryParams ==
    IF inv.layer = "facade" THEN inv.args.params
    ELSE IF Request.method = "GET" THEN Request.query
    ELSE Request.body.o

GivenQuery == OrDefault(GivenQueryParams, "query", Undefined)

\* the predicate of the filter for one field
StartsWith(field, q) == "(" \o field \o " start-with '%" \o q \o "')"

\* the five predicates joined by OR
FiveFieldFilter(q) ==
    "(" \o StartsWith("accountname", q)
        \o " OR " \o StartsWith("firstname", q)
        \o " OR " \o StartsWith("lastname", q)
        \o " OR " \o StartsWith("emailaddress1", q)
        \o " OR " \o StartsWith("telephone1", q) \o ")"

\* the text has a character that is not a blank
NotBlank(v) == v.t = "str" /\ \E i \in 1..Len(v.c) : v.c[i] # " "

\* C17: queryCustomers with a non-empty query q sends to api/query a filter
\* string that ORs start-with '%q' across exactly accountname, firstname,
\* lastname, emailaddress1 and telephone1; with an absent, empty or
\* whitespace-only query it sends no filter string.
C17_FilterOverFiveFields ==
    (inv.op = "queryCustomers" /\ Len(sent) > 0) =>
        LET body == WireBody(sent[1]).json.o
        IN  /\ sent[1].url = baseUrl \o "/api/query"
            /\ sent[1].method = "POST"
            /\ IF NotBlank(GivenQuery)
               THEN /\ "query" \in DOMAIN body
                    /\ body["query"] = Str(FiveFieldFilter(GivenQuery.s))
               ELSE "query" \notin DOMAIN body

C17_Witness ==
    /\ inv.op = "queryCustomers"
    /\ inv.layer = "handler"
    /\ Len(sent) > 0
    /\ GivenQuery = Text(<<"a">>)
    /\ WireBody(sent[1]).json.o["query"] =
           Str("((accountname start-with '%a') OR (firstname start-with '%a') OR (lastname start-with '%a') OR (emailaddress1 start-with '%a') OR (telephone1 start-with '%a'))")


\* the pageSize given to queryCustomers, undefined when none is given
GivenPageSize == OrDefault(GivenQueryParams, "pageSize", Undefined)

\* the pageSize given is a number, or (at the endpoint) the text of one
NumericPageSize ==
    \/ GivenPageSize.t = "num"
    \/ inv.layer = "handler" /\ GivenPageSize.t = "str" /\ ToNumber(GivenPageSize).t = "num"

\* C18 (as claimed): for every pageSize given to queryCustomers, through the
\* Facade or through the endpoint's query string or body, the page_size sent
\* is min(pageSize, 50): values above 50 go out as 50, values at or below 50
\* unchanged, and a missing value as 50.
C18_PageSizeIsMinWith50 ==
    (inv.op = "queryCustomers" /\ Len(sent) > 0) =>
        LET page_size == WireBody(sent[1]).json.o["page_size"]
        IN  /\ GivenPageSize = Undefined => page_size = Num(50)
            /\ NumericPageSize =>
                   LET n == ToNumber(GivenPageSize).n
                   IN  page_size = Num(IF n > 50 THEN 50 ELSE n)

\* the two envelopes have the same success flag, the same data and the same
\* error code and message
SameEnvelope(a, b) ==
    LET data(e) == IF "data" \in DOMAIN e THEN e.data ELSE Undefined
        error(e) == IF "error" \in DOMAIN e THEN e.error ELSE Undefined
    IN  a.success = b.success /\ data(a) = data(b) /\ error(a) = error(b)

\* a Facade method has delegated to the Gateway and both have returned
Delegated ==
    /\ inv.layer \in {"facade", "handler"}
    /\ pc = "settled"
    /\ gw.state = "resolved"
    /\ promise.state = "resolved"

\* C19 (as claimed): every Facade method that delegates to the Gateway
\* returns exactly the envelope the Gateway produced, on success and on
\* failure.
C19_FacadeReturnsGatewayEnvelope ==
    Delegated => SameEnvelope(promise.value, gw.value)

\* C19 (amended): every Facade method other than getUpcomingBirthdays
\* returns exactly the envelope the Gateway produced, on success and on
\* failure; getUpcomingBirthdays returns the Gateway's envelope when the
\* Gateway reports a failure, and otherwise an envelope of its own.
C19_FacadeReturnsGatewayEnvelopeAmended ==
    Delegated =>
        IF inv.op = "getUpcomingBirthdays"
        THEN ~gw.value.success => SameEnvelope(promise.value, gw.value)
        ELSE SameEnvelope(promise.value, gw.value)

C19_Witness ==
    /\ Delegated
    /\ inv.layer = "facade"
    /\ inv.op = "queryCustomers"
    /\ outcome.kind = "response"
    /\ outcome.body = Obj([Data |-> Arr(<<Obj([accountname |-> Str("A")])>>)])
    /\ promise.value.success
    /\ promise.value.data = outcome.body

\* the body of the request callFireberryAPI was invoked with
PassThroughBody == Request.body

\* C20: callFireberryAPI, on a POST carrying {endpoint, method, payload},
\* issues one backend request to the endpoint with the method (GET when
\* the method is absent) and the payload, unmodified; on a 2xx answer it
\* responds {success: true, data: the backend's body, message: ''}, and on
\* a failed request with success false and a message.
C20_PassThroughForwards ==
    (/\ inv.op = "callFireberryAPI"
     /\ Request.method = "POST"
     /\ Truthy(Field(PassThroughBody, "endpoint"))) =>
        /\ Len(sent) = 1
        /\ sent[1].url = baseUrl \o "/" \o Field(PassThroughBody, "endpoint").s
        /\ sent[1].method =
               (IF Missing(Field(PassThroughBody, "method")) THEN "GET"
                ELSE Field(PassThroughBody, "method").s)
        /\ "data" \in DOMAIN sent[1]
        /\ sent[1].data = Field(PassThroughBody, "payload")
        /\ pc = "settled" =>
               /\ Len(responses) = 1
               /\ CallSucceeded =>
                      responses[1] = JsonResponse(200, [success |-> TRUE,
                                                        data |-> outcome.body,
                                                        message |-> ""])
               /\ CallFailed =>
                      /\ responses[1].body.success = FALSE
                      /\ responses[1].body.message # ""

C20_Witness ==
    /\ inv.op = "callFireberryAPI"
    /\ pc = "settled"
    /\ sent = <<[url |-> "https://api.fireberry.com/api/record/account",
                 method |-> "GET",
                 data |-> Obj([name |-> Str("foo")])]>>
    /\ outcome = Response(200, Obj([id |-> Str("X"), name |-> Str("foo")]))
    /\ responses[1].body.data = outcome.body

-----------------------------------------------------------------------------
(* The result envelope *)

\* the envelopes the Gateway and the invoked Facade method have returned
ReturnedEnvelopes ==
    {p.value : p \in {q \in {gw, promise} : q.state = "resolved"}}

\* a property an object does not have, or has with the value undefined, reads
\* as undefined: queryCustomers writes "error: result.error" into the
\* envelope it rebuilds
FieldAbsent(e, k) == k \notin DOMAIN e \/ e[k] = Undefined

\* C21: every envelope returned by the Gateway or by a Facade method has
\* no error when success is true, and when success is false has an error
\* with a string code and a string message and has no data.
C21_EnvelopeShape ==
    \A e \in ReturnedEnvelopes :
        /\ e.success \in BOOLEAN
        /\ e.success => FieldAbsent(e, "error")
        /\ ~e.success =>
              /\ ~FieldAbsent(e, "error")
              /\ DOMAIN e.error = {"code", "message"}
              /\ e.error.code \in STRING
              /\ e.error.message \in STRING
              /\ FieldAbsent(e, "data")

\* queryCustomers has rebuilt a successful envelope, whose error property
\* holds undefined, while the Gateway's envelope has no such property
C21_Witness ==
    /\ pc = "settled"
    /\ inv.op = "queryCustomers"
    /\ gw.state = "resolved" /\ promise.state = "resolved"
    /\ promise.value.success /\ gw.value.success
    /\ "error" \in DOMAIN promise.value
    /\ "error" \notin DOMAIN gw.value

-----------------------------------------------------------------------------
(* createOrder's own validation *)

\* the order given to orderService.createOrder
GivenOrder == inv.args.payload

\* the order has no such field, or has it undefined, null or empty
MissingOrEmpty(order, k) ==
    k \notin DOMAIN order \/ order[k] \in {Undefined, Null, Str("")}

CreateOrderInvoked ==
    inv.layer = "facade" /\ inv.op = "create" /\ inv.resource = "order"

\* C23: createOrder called with accountid or companyname missing or empty
\* returns {success: false, error: {code: 'MISSING_REQUIRED_FIELDS',
\* message}} and makes no outbound call.
C23_CreateOrderValidatesLocally ==
    (/\ CreateOrderInvoked
     /\ \/ MissingOrEmpty(GivenOrder, "accountid")
        \/ MissingOrEmpty(GivenOrder, "companyname")) =>
        /\ sent = <<>>
        /\ gw = Pending
        /\ promise.state = "resolved"
        /\ promise.value.success = FALSE
        /\ DOMAIN promise.value = {"success", "error"}
        /\ promise.value.error.code = "MISSING_REQUIRED_FIELDS"
        /\ promise.value.error.message \in STRING

\* an order with an account but without a company name has been refused
C23_Witness ==
    /\ CreateOrderInvoked
    /\ pc = "settled"
    /\ "accountid" \in DOMAIN GivenOrder /\ GivenOrder["accountid"] = Str("A1")
    /\ "companyname" \notin DOMAIN GivenOrder
    /\ promise.value.error.code = "MISSING_REQUIRED_FIELDS"
    /\ sent = <<>>

-----------------------------------------------------------------------------
(* The single page of the Birthday Filter *)

\* s is t with some of its elements left out: the elements of s are
\* elements of t, unchanged and in the order t has them
IsSubSeq(s, t) ==
    \E f \in [1..Len(s) -> 1..Len(t)] :
        /\ \A i \in 1..Len(s) : s[i] = t[f[i]]
        /\ \A i, j \in 1..Len(s) : i < j => f[i] < f[j]

\* customerService.getUpcomingBirthdays has been called: by a caller, or by
\* its handler, which calls it as soon as the method is accepted
BirthdaysInvoked ==
    /\ inv.op = "getUpcomingBirthdays"
    /\ inv.layer = "facade" \/ Len(sent) > 0

-----------------------------------------------------------------------------
(* An empty answer to the Birthday Filter's fetch *)

\* the backend answered the fetch of getUpcomingBirthdays with a 2xx status
\* and a body that is null or empty
EmptyPageFetched ==
    /\ pc = "settled"
    /\ inv.op = "getUpcomingBirthdays"
    /\ CallSucceeded
    /\ outcome.body \in {Null, Str("")}

\* C28: when the fetch of getUpcomingBirthdays succeeds with an empty or
\* null body, getUpcomingBirthdays returns success false with the error
\* code FETCH_ERROR, not a successful empty list, and the endpoint
\* answers 500.
C28_EmptyBodyIsFetchError ==
    EmptyPageFetched =>
        /\ gw.value = [success |-> TRUE, data |-> outcome.body]
        /\ promise.state = "resolved"
        /\ promise.value.success = FALSE
        /\ promise.value.error.code = "FETCH_ERROR"
        /\ "data" \notin DOMAIN promise.value
        /\ inv.layer = "handler" =>
              /\ Len(responses) = 1
              /\ responses[1].status = 500
              /\ responses[1].body.success = FALSE

\* the endpoint has answered 500 to a 200 with a null body
C28_Witness ==
    /\ EmptyPageFetched
    /\ inv.layer = "handler"
    /\ outcome.status = 200 /\ outcome.body = Null
    /\ responses[1].status = 500
    /\ promise.value.error.code = "FETCH_ERROR"

-----------------------------------------------------------------------------
(* The Birthday Filter and the width of its window *)

\* the customers getUpcomingBirthdays returns for the page it fetched and the
\* "today" it read, had it been called with the window d
ReturnedFor(d) ==
    Range(getUpcomingBirthdays(gw.value, DateOfTime(today), d).data.a)

\* C29: for the same page and the same "today", the customers returned for
\* a window d1 are among those returned for any window d2 >= d1, and for a
\* window of 366 days or more every customer whose birth date parses is
\* returned.
C29_MonotonicInWindow ==
    BirthdaysReturned =>
        /\ \A d1 \in WindowDays :
              d1 < inv.args.days => ReturnedFor(d1) \subseteq Kept
        /\ inv.args.days >= 366 =>
              \A c \in FetchedPage : HasBirthDate(c) => c \in Kept

\* the window of 366 days has returned a customer whose birthday is 366
\* days away, whom the window of 30 days leaves out
C29_Witness ==
    /\ BirthdaysReturned
    /\ inv.args.days = 366
    /\ \E c \in Kept :
          /\ DiffDays(BirthDate(c), DateOfTime(today)).n = 366
          /\ c \notin ReturnedFor(30)

-----------------------------------------------------------------------------
(* The Birthday Filter and 29 February *)

IsLeapYear(y) == (y % 4 = 0 /\ y % 100 # 0) \/ y % 400 = 0

\* the time value of midnight of 1 March of year y
FirstOfMarch(y) == MakeDay(y, 2, 1) * TicksPerDay

\* the year whose occurrence of a 29 February birthday is counted to: this
\* year, unless that occurrence (29 February, or 1 March in a year without
\* it) began before now
LeapDayYear ==
    LET y0 == TodayCivil[1]
        thisYear == IF IsLeapYear(y0) THEN MakeDay(y0, 1, 29) * TicksPerDay
                    ELSE FirstOfMarch(y0)
    IN  IF thisYear < today THEN y0 + 1 ELSE y0

\* C30: a customer born on 29 February is matched, in a year without a 29
\* February, against 1 March of that year: the days remaining are the days
\* to that 1 March, and the customer is kept iff they are within the window.
C30_LeapDayCountsToFirstOfMarch ==
    BirthdaysReturned =>
        \A c \in FetchedPage :
            (/\ HasBirthDate(c)
             /\ IsLeapDay(BirthDate(c))
             /\ ~IsLeapYear(LeapDayYear)) =>
                LET n == Ceil(FirstOfMarch(LeapDayYear) - today, TicksPerDay)
                    diffDays == DiffDays(BirthDate(c), DateOfTime(today))
                IN  /\ diffDays.valid
                    /\ diffDays.n = n
                    /\ n >= 0
                    /\ c \in Kept <=> n <= inv.args.days

\* on 20 February 2023 the customer born on 29 February 1992 has been kept
\* by the window of 15 days: 1 March 2023 is 9 days away
C30_Witness ==
    /\ BirthdaysReturned
    /\ TodayCivil = <<2023, 1, 20>>
    /\ inv.args.days = 15
    /\ \E c \in Kept :
          /\ BirthDate(c) = IsoDate(1992, 2, 29)
          /\ DiffDays(BirthDate(c), DateOfTime(today)).n
                 = Ceil(FirstOfMarch(2023) - today, TicksPerDay)
          /\ (FirstOfMarch(2023) - today) \div TicksPerDay \in {8, 9}

-----------------------------------------------------------------------------
(* The order of the checks of a handler *)

\* C27 (as claimed): the method check comes before the validation of the
\* input, which comes before the Facade call: a request with a method the
\* endpoint does not accept and without a required input gets 405, not 400,
\* and a request with an accepted method and without a required input gets
\* 400 with no Facade method invoked.
C27_MethodThenInputThenFacade ==
    (inv.layer = "handler" /\ LacksRequiredInput) =>
        /\ pc = "settled"
        /\ Len(responses) = 1
        /\ responses[1].status = IF MethodAccepted THEN 400 ELSE 405
        /\ promise = Pending /\ gw = Pending
        /\ sent = <<>>

-----------------------------------------------------------------------------
(* Preflight requests *)

\* a preflight request has arrived at an endpoint
PreflightArrived ==
    /\ inv.layer \in {"handler", "preflight"}
    /\ Request.method = "OPTIONS"

\* C24: an OPTIONS preflight on any endpoint is answered by the CORS step and
\* no handler logic runs after it: the handler writes no 405 or other
\* response of its own, invokes no Facade method and makes no outbound call.
C24_PreflightAnsweredByCors ==
    PreflightArrived =>
        /\ pc = "suspended"
        /\ responses = <<[status |-> 204, body |-> Undefined]>>
        /\ sent = <<>>
        /\ promise = Pending /\ gw = Pending
        /\ caught = NoError

\* the preflight of createOrder has been answered, and the handler is left
\* at its await
C24_Witness ==
    /\ PreflightArrived
    /\ inv.endpoint = "createOrder"
    /\ pc = "suspended"
    /\ Len(responses) = 1 /\ responses[1].status = 204

-----------------------------------------------------------------------------
(* Every invocation is answered *)

\* the step of AxiosSettles or PassThroughSettles: the outbound request in
\* flight is settled and the continuation of its caller runs to its end
OutboundSettles == pc \in {"awaiting", "forwarding"} /\ pc' = "settled"

\* axios settles every request in the end, with a response or with an error,
\* and the event loop then runs the continuation that awaits it
FairSpec == Spec /\ WF_pc(OutboundSettles)

\* a handler runs for a request that is no preflight
HandlerInvoked == inv.layer = "handler"

\* the handler has ended
HandlerEnded == HandlerInvoked /\ pc = "settled"

\* C26: every handler invocation for a request other than a preflight
\* sends exactly one response in the end: whichever way it goes one response
\* is written and the handler ends, with no second response and never
\* without one.
C26_ExactlyOneResponse ==
    /\ [](HandlerInvoked => /\ Len(responses) <= 1
                            /\ pc = "settled" <=> Len(responses) = 1)
    /\ [][HandlerEnded => (responses' = responses \/ ~HandlerInvoked')]_vars
    /\ HandlerInvoked ~> (HandlerEnded /\ Len(responses) = 1)

\* the handler of updateProduct, whose outbound request failed on the
\* network, has answered once
C26_Witness ==
    /\ HandlerEnded
    /\ inv.op = "update"
    /\ outcome.kind = "network"
    /\ Len(responses) = 1 /\ responses[1].status = 500

-----------------------------------------------------------------------------
(* Concurrent requests *)

\* the entry of the handler of an invocation, from its request alone
EntryOf(i) ==
    IF i.op = "update" THEN UpdateHandlerEntry(i.resource, i.args.req)
    ELSE HandlerEntry(i.endpoint, i.args.req)

\* the configuration of the outbound request of a call, built from the
\* fields the service was constructed with
ConfigOf(call) ==
    BuildConfigOf(NewFireberryService, call.endpoint, call.method, call.data)

\* what an invocation with the variables r has sent and answered follows
\* from its own request and from the outcome of its own outbound request
Determined(r) ==
    r.inv.layer = "handler" =>
        LET entry == EntryOf(r.inv)
        IN  CASE r.pc = "awaiting" ->
                    /\ entry.kind = "call"
                    /\ r.sent = <<ConfigOf(entry.call)>>
                    /\ r.responses = <<>>
              [] r.pc = "settled" /\ entry.kind = "respond" ->
                    r.sent = <<>> /\ r.responses = <<entry.response>>
              [] r.pc = "settled" /\ entry.kind = "throw" ->
                    r.sent = <<>> /\ r.responses = <<handleError(entry.error)>>
              [] r.pc = "settled" /\ entry.kind = "call" ->
                    /\ r.sent = <<ConfigOf(entry.call)>>
                    /\ r.gw = CallApiSettle(r.outcome)
                    /\ r.responses =
                         <<HandlerResponse(r.inv,
                               FacadeResult(r.inv, CallApiSettle(r.outcome), r.today))>>
              [] OTHER -> FALSE

\* C22: concurrent requests do not interfere: however the steps of two
\* invocations interleave, the outbound request and the response of each
\* follow from its own request and the backend's answer to its own outbound
\* request; no step of one writes what the other reads, and the fields of
\* the singleton service are never modified after construction.
C22_NoInterference ==
    /\ [](Determined(Registers) /\ Determined(parked))
    /\ [][service' = service]_vars
    /\ [][parked' = parked \/ (parked' = Registers /\ Registers' = parked)]_vars

\* two requests are in progress, to different endpoints: one is answered
\* while the other still awaits the backend
C22_Witness ==
    /\ pc = "settled" /\ inv.endpoint = "getOrderItems" /\ Len(sent) = 1
    /\ responses[1].status = 200
    /\ parked.pc = "awaiting" /\ parked.inv.endpoint = "getProductById"
    /\ parked.sent # sent

====
